---- MODULE Spec2Model ----
(***************************************************************************)
(* A model of the provider-abstraction layer of the repository:            *)
(* demo/ai_client.py (AIClient), demo/ollama_client.py (OllamaClient),     *)
(* demo/deepseek_client.py (DeepSeekClient) and demo/openai_client.py      *)
(* (OpenAIClient).                                                         *)
(*                                                                         *)
(* Python values are tagged records [t |-> <type>, v |-> <value>], so that *)
(* a response of any JSON shape (or a library object with attributes) can  *)
(* be handed to the extractors.  Python's None in an optional argument is  *)
(* the empty tuple <<>>, a given value x is <<x>>.  An evaluation that may *)
(* raise yields [ok |-> TRUE, v |-> value] or [ok |-> FALSE, exc |-> type].*)
(* The two placeholder sentences of the offline stub are Chinese text in   *)
(* the source; they are written here in ASCII.  Floats are in thousandths  *)
(* (700 stands for 0.7).                                                   *)
(***************************************************************************)
EXTENDS Integers, Sequences, FiniteSets, TLC

VARIABLES
  client,      \* the client object under study (NoClient before construction)
  ctor,        \* the constructor call just made: its arguments, what it read, its result
  call,        \* the operation just invoked on the client, with its arguments
  trace,       \* what that operation did: transport calls and stub calls, in order
  outcome,     \* how that operation ended: a returned value or a raised error
  threads,     \* concurrent callers of one client: where each is in its call
  frames       \* the frame of each call in progress: the locals of its try block

vars == <<client, ctor, call, trace, outcome, threads, frames>>

----------------------------------------------------------------------------
(* AIProvider (ai_client.py:8-13) *)
OPENAI == "openai"
DEEPSEEK == "deepseek"
OLLAMA == "ollama"
(* LOCAL is a reserved word of TLA+: AIProvider.LOCAL is written LOCAL_. *)
LOCAL_ == "local"
AIProvider == {OPENAI, DEEPSEEK, OLLAMA, LOCAL_}

None == <<>>
Some(x) == <<x>>

(* Python truthiness of an optional string: None and "" are falsy. *)
Truthy(opt) == opt # None /\ opt[1] # ""

(* A variant of the choice of the credential that falls through on None   *)
(* only: "a if a is not None else b".                                      *)
PyOr_NoneOnly(a, b) == IF a # None THEN a ELSE b

(* Python's "a or b" on optional strings. *)
PyOr(a, b) == IF Truthy(a) THEN a ELSE b

----------------------------------------------------------------------------
(* Python values *)
PyNone == [t |-> "none"]
PyStr(s) == [t |-> "str", v |-> s]
PyInt(n) == [t |-> "int", v |-> n]
(* A float, in thousandths: PyFloat(700) is 0.7. *)
PyFloat(k) == [t |-> "float", v |-> k]
PyBool(b) == [t |-> "bool", v |-> b]
PyList(seq) == [t |-> "list", v |-> seq]
PyDict(rec) == [t |-> "dict", v |-> rec]
(* An object whose fields are read as attributes: the openai library's     *)
(* response objects.                                                       *)
PyObj(rec) == [t |-> "object", v |-> rec]
EmptyDict == [t |-> "dict", v |-> <<>>]

(* An exception object: its class and its __cause__ (None unless it was    *)
(* raised "from" another error).                                           *)
PyExc(type) == [type |-> type, cause |-> None]

Ok(x) == [ok |-> TRUE, v |-> x]
Err(e) == [ok |-> FALSE, exc |-> e]

(* The characters of a string, each a string of length one. *)
StrChars(s) == [i \in 1..Len(s) |-> SubSeq(s, i, i)]

(* x[k] for an integer index k (0-based, as in the source). *)
GetIndex(x, k) ==
  CASE x.t = "list" ->
         IF k + 1 \in 1..Len(x.v) THEN Ok(x.v[k + 1]) ELSE Err(PyExc("IndexError"))
    [] x.t = "str" ->
         IF k + 1 \in 1..Len(StrChars(x.v))
           THEN Ok(PyStr(StrChars(x.v)[k + 1]))
           ELSE Err(PyExc("IndexError"))
    [] x.t = "dict" -> Err(PyExc("KeyError"))
    [] OTHER -> Err(PyExc("TypeError"))

(* x[key] for a string key. *)
GetKey(x, key) ==
  CASE x.t = "dict" ->
         IF key \in DOMAIN x.v THEN Ok(x.v[key]) ELSE Err(PyExc("KeyError"))
    [] OTHER -> Err(PyExc("TypeError"))

(* x.name *)
GetAttr(x, name) ==
  IF x.t = "object" /\ name \in DOMAIN x.v
    THEN Ok(x.v[name])
    ELSE Err(PyExc("AttributeError"))

(* hasattr(x, name) *)
HasAttr(x, name) == GetAttr(x, name).ok

(* key in x, for a string key *)
Contains(key, x) ==
  CASE x.t = "dict" -> Ok(key \in DOMAIN x.v)
    [] x.t = "list" ->
         Ok(\E i \in 1..Len(x.v) : x.v[i].t = "str" /\ x.v[i].v = key)
    \* a substring test in Python
    [] x.t = "str" ->
         Ok(\/ key = ""
            \/ \E i \in 1..Len(x.v) : \E j \in i..Len(x.v) : SubSeq(x.v, i, j) = key)
    [] OTHER -> Err(PyExc("TypeError"))

(* isinstance(x, dict) *)
IsDict(x) == x.t = "dict"

(* Chaining of evaluations that may raise. *)
ThenIndex(r, k) == IF r.ok THEN GetIndex(r.v, k) ELSE r
ThenKey(r, key) == IF r.ok THEN GetKey(r.v, key) ELSE r
ThenAttr(r, name) == IF r.ok THEN GetAttr(r.v, name) ELSE r

(* How a call ends. *)
Return(x) == [kind |-> "return", value |-> x]
Raise(e) == [kind |-> "raise", exc |-> e]
NoOutcome == [kind |-> "none"]

----------------------------------------------------------------------------
(* Text extraction *)

(* A variant of CatchExtraction that catches KeyError and AttributeError   *)
(* but lets IndexError through.                                            *)
CatchExtraction_NoIndexError(r) ==
  IF r.ok THEN Return(r.v)
  ELSE IF r.exc.type \in {"KeyError", "AttributeError"}
    THEN Return(PyStr(""))
    ELSE Raise(r.exc)

(* "except (KeyError, IndexError, AttributeError): return ''" around an    *)
(* evaluation r; any other error leaves the function.                      *)
CatchExtraction(r) ==
  IF r.ok THEN Return(r.v)
  ELSE IF r.exc.type \in {"KeyError", "IndexError", "AttributeError"}
    THEN Return(PyStr(""))
    ELSE Raise(r.exc)

(* DeepSeekClient catches (KeyError, IndexError) only. *)
CatchKeyIndex(r) ==
  IF r.ok THEN Return(r.v)
  ELSE IF r.exc.type \in {"KeyError", "IndexError"}
    THEN Return(PyStr(""))
    ELSE Raise(r.exc)

(* response.choices[0].message.content *)
AttrChatPath(response) ==
  ThenAttr(ThenAttr(ThenIndex(GetAttr(response, "choices"), 0), "message"), "content")

(* response.choices[0].text *)
AttrTextPath(response) ==
  ThenAttr(ThenIndex(GetAttr(response, "choices"), 0), "text")

(* response["choices"][0]["message"]["content"] *)
KeyChatPath(response) ==
  ThenKey(ThenKey(ThenIndex(GetKey(response, "choices"), 0), "message"), "content")

(* response["choices"][0]["text"] *)
KeyTextPath(response) ==
  ThenKey(ThenIndex(GetKey(response, "choices"), 0), "text")

(* response["message"]["content"] *)
OllamaChatPath(response) == ThenKey(GetKey(response, "message"), "content")

(* response["response"] *)
OllamaTextPath(response) == GetKey(response, "response")

(* The if/elif chain shared by AIClient.get_completion_text and            *)
(* AIClient.get_text_completion: the library object for OPENAI, the key    *)
(* ollamaKey for OLLAMA, then the "choices" mapping, else "".              *)
ExtractDispatch(provider, response, attrPath, ollamaKey, ollamaPath, keyPath) ==
  IF provider = OPENAI /\ HasAttr(response, "choices")
    THEN CatchExtraction(attrPath)
  ELSE
    LET inOllama == IF provider = OLLAMA THEN Contains(ollamaKey, response)
                                         ELSE Ok(FALSE)
    IN  IF ~inOllama.ok THEN CatchExtraction(inOllama)
        ELSE IF inOllama.v THEN CatchExtraction(ollamaPath)
        ELSE
          LET inChoices == IF IsDict(response) THEN Contains("choices", response)
                                               ELSE Ok(FALSE)
          IN  IF inChoices.v THEN CatchExtraction(keyPath)
                             ELSE Return(PyStr(""))

(* A variant of AIClient.get_completion_text without the OLLAMA branch:   *)
(* every mapping is read at "choices".                                     *)
AIClient_get_completion_text_ChoicesOnly(provider, response) ==
  ExtractDispatch(IF provider = OLLAMA THEN DEEPSEEK ELSE provider, response,
                  AttrChatPath(response), "message",
                  OllamaChatPath(response), KeyChatPath(response))

AIClient_get_completion_text(provider, response) ==
  ExtractDispatch(provider, response, AttrChatPath(response), "message",
                  OllamaChatPath(response), KeyChatPath(response))

AIClient_get_text_completion(provider, response) ==
  ExtractDispatch(provider, response, AttrTextPath(response), "response",
                  OllamaTextPath(response), KeyTextPath(response))

OllamaClient_get_completion_text(response) ==
  LET c == Contains("message", response)
  IN  IF ~c.ok THEN CatchExtraction(c)
      ELSE IF c.v THEN CatchExtraction(OllamaChatPath(response))
      ELSE Return(PyStr(""))

OllamaClient_get_text_completion(response) ==
  LET c == Contains("response", response)
  IN  IF ~c.ok THEN CatchExtraction(c)
      ELSE IF c.v THEN CatchExtraction(OllamaTextPath(response))
      ELSE Return(PyStr(""))

DeepSeekClient_get_completion_text(response) == CatchKeyIndex(KeyChatPath(response))

DeepSeekClient_get_text_completion(response) == CatchKeyIndex(KeyTextPath(response))

OpenAIClient_get_completion_text(response) == CatchExtraction(AttrChatPath(response))

OpenAIClient_get_text_completion(response) == CatchExtraction(AttrTextPath(response))

----------------------------------------------------------------------------
(* Construction *)

NoClient == [cls |-> "none"]

(* "设置请求头" (ai_client.py:71-79): the Authorization header is present   *)
(* exactly when the key is truthy.                                         *)
AIClient_headers(api_key) ==
  IF Truthy(api_key)
    THEN ("Authorization" :> ("Bearer " \o api_key[1]))
         @@ ("Content-Type" :> "application/json")
    ELSE ("Content-Type" :> "application/json")

(* A variant of AIClient.__init__ that does not look for the credential    *)
(* at construction and leaves its absence to the first call.               *)
AIClient_init_Unchecked(provider, api_key, base_url, use_local_fallback, environ, lib) ==
  IF provider \notin AIProvider THEN Raise(PyExc("ValueError"))
  ELSE
    LET key == CASE provider = OPENAI -> PyOr(api_key, environ.OPENAI_API_KEY)
                 [] provider = DEEPSEEK -> PyOr(api_key, environ.DEEPSEEK_API_KEY)
                 [] provider = OLLAMA -> api_key
                 [] OTHER -> None
        url == CASE provider = OPENAI -> PyOr(base_url, Some("https://api.openai.com/v1"))
                 [] provider = DEEPSEEK -> PyOr(base_url, Some("https://api.deepseek.com/v1"))
                 [] provider = OLLAMA -> PyOr(base_url, Some("http://localhost:11434"))
                 [] OTHER -> None
    IN  Return([cls |-> "AIClient", provider |-> provider,
                use_local_fallback |-> use_local_fallback,
                api_key |-> key, base_url |-> url,
                has_client |-> provider = OPENAI /\ Truthy(key) /\ lib,
                headers |-> AIClient_headers(key)])

(* AIClient.__init__: the constructed object, or the error it raises.      *)
(* has_client stands for a non-None self.client (the openai library's      *)
(* client, built from the key alone).                                      *)
AIClient_init(provider, api_key, base_url, use_local_fallback, environ, lib) ==
  IF provider \notin AIProvider THEN Raise(PyExc("ValueError"))
  ELSE IF provider = OPENAI THEN
    LET key == PyOr(api_key, environ.OPENAI_API_KEY)
    IN  IF ~Truthy(key) /\ ~use_local_fallback THEN Raise(PyExc("ValueError"))
        ELSE Return([cls |-> "AIClient", provider |-> provider,
                     use_local_fallback |-> use_local_fallback,
                     api_key |-> key,
                     base_url |-> PyOr(base_url, Some("https://api.openai.com/v1")),
                     has_client |-> Truthy(key) /\ lib,
                     headers |-> AIClient_headers(key)])
  ELSE IF provider = DEEPSEEK THEN
    LET key == PyOr(api_key, environ.DEEPSEEK_API_KEY)
    IN  IF ~Truthy(key) /\ ~use_local_fallback THEN Raise(PyExc("ValueError"))
        ELSE Return([cls |-> "AIClient", provider |-> provider,
                     use_local_fallback |-> use_local_fallback,
                     api_key |-> key,
                     base_url |-> PyOr(base_url, Some("https://api.deepseek.com/v1")),
                     has_client |-> FALSE,
                     headers |-> AIClient_headers(key)])
  ELSE IF provider = OLLAMA THEN
    Return([cls |-> "AIClient", provider |-> provider,
            use_local_fallback |-> use_local_fallback,
            api_key |-> api_key,
            base_url |-> PyOr(base_url, Some("http://localhost:11434")),
            has_client |-> FALSE,
            headers |-> AIClient_headers(api_key)])
  ELSE
    Return([cls |-> "AIClient", provider |-> provider,
            use_local_fallback |-> use_local_fallback,
            api_key |-> None,
            base_url |-> None,
            has_client |-> FALSE,
            headers |-> AIClient_headers(None)])

(* OpenAIClient.__init__ (the module imports the openai library itself). *)
OpenAIClient_init(api_key, environ) ==
  LET key == PyOr(api_key, environ.OPENAI_API_KEY)
  IN  IF ~Truthy(key) THEN Raise(PyExc("ValueError"))
      ELSE Return([cls |-> "OpenAIClient", api_key |-> key, has_client |-> TRUE])

(* DeepSeekClient.__init__ *)
DeepSeekClient_init(api_key, base_url, environ) ==
  LET key == PyOr(api_key, environ.DEEPSEEK_API_KEY)
  IN  IF ~Truthy(key) THEN Raise(PyExc("ValueError"))
      ELSE Return([cls |-> "DeepSeekClient", api_key |-> key,
                   base_url |-> base_url,
                   headers |-> ("Authorization" :> ("Bearer " \o key[1]))
                               @@ ("Content-Type" :> "application/json")])

(* OllamaClient.__init__ *)
OllamaClient_init(base_url, api_key) ==
  Return([cls |-> "OllamaClient", api_key |-> api_key, base_url |-> base_url,
          headers |-> IF Truthy(api_key)
                        THEN ("Authorization" :> ("Bearer " \o api_key[1]))
                             @@ ("Content-Type" :> "application/json")
                        ELSE ("Content-Type" :> "application/json")])

----------------------------------------------------------------------------
(* Transport: what the network, the server and the openai library may do   *)
(* with one call.  An oracle t is                                          *)
(*   [fail |-> "connect"]  no response: the connection failed;             *)
(*   [fail |-> "status"]   a response with a status outside 2xx;           *)
(*   [fail |-> "decode"]   a 2xx response declared as JSON (Content-Type   *)
(*                         application/json) whose body is not JSON;       *)
(*   [fail |-> "nonjson"]  a 2xx response of another Content-Type whose    *)
(*                         body, RawText, is not JSON;                     *)
(*   [fail |-> "none", body |-> the decoded body]  a 2xx JSON response.    *)

(* The body of a 2xx response that is not JSON, as text. *)
RawText == "<html>Bad Gateway</html>"

(* requests.post(...) raising, response.raise_for_status() raising,        *)
(* response.json() raising (it does not look at the Content-Type), or      *)
(* response.json() returning the body.                                     *)
RequestsResult(t) ==
  CASE t.fail = "connect" -> Err(PyExc("ConnectionError"))
    [] t.fail = "status" -> Err(PyExc("HTTPError"))
    [] t.fail \in {"decode", "nonjson"} -> Err(PyExc("JSONDecodeError"))
    [] OTHER -> Ok(t.body)

(* The httpx error the openai library catches when no response arrives;    *)
(* only its class is modelled.                                             *)
HttpxConnectError == [type |-> "ConnectError"]

(* self.client.<...>.create(...) of the openai library (version 1 and      *)
(* later, as OpenAI(api_key=...) configures it: no strict response         *)
(* validation).  No response: "raise APIConnectionError(...) from err".    *)
(* A status outside 2xx: an APIStatusError raised "from None".  A 2xx      *)
(* response declared as JSON whose body is not JSON: the JSONDecodeError   *)
(* of response.json().  A 2xx response of another Content-Type whose body  *)
(* is not JSON: the text of the body is returned as it is.  Otherwise the  *)
(* response object.                                                        *)
LibraryResult(t) ==
  CASE t.fail = "connect" ->
         Err([type |-> "APIConnectionError", cause |-> Some(HttpxConnectError)])
    [] t.fail = "status" -> Err(PyExc("APIStatusError"))
    [] t.fail = "decode" -> Err(PyExc("JSONDecodeError"))
    [] t.fail = "nonjson" -> Ok(PyStr(RawText))
    [] OTHER -> Ok(t.body)

(* One requests.post(url, headers=..., json=...) as an event of the trace. *)
PostEvent(url, headers, payload, t) ==
  [ev |-> "requests.post", url |-> url, headers |-> headers, json |-> payload,
   reply |-> t]

(* One call of the openai library's client as an event of the trace. *)
LibraryEvent(method, args, t) ==
  [ev |-> "openai", method |-> method, args |-> args, reply |-> t]

(* Where the openai library's client sends its requests: AIClient builds   *)
(* it as OpenAI(api_key=self.api_key), from the key alone, so it keeps the *)
(* library's own base URL whatever self.base_url is.                       *)
LibraryBaseUrl == "https://api.openai.com/v1"
LibraryPath(method) ==
  CASE method = "chat.completions.create" -> "/chat/completions"
    [] method = "completions.create" -> "/completions"
    [] OTHER -> "/embeddings"

(* The URL a transport event goes to. *)
EventUrl(e) ==
  IF e.ev = "openai" THEN LibraryBaseUrl \o LibraryPath(e.method) ELSE e.url

(* One call of the offline stub as an event of the trace. *)
StubEvent(fn) == [ev |-> "stub", fn |-> fn]

----------------------------------------------------------------------------
(* The offline stub *)

LocalChatText == "local model reply placeholder"
LocalTextText == "local model text completion placeholder"

StubUsage ==
  PyDict([completion_tokens |-> PyInt(20), prompt_tokens |-> PyInt(10),
          total_tokens |-> PyInt(30)])

(* A variant of AIClient._local_chat_completion that answers in the shape  *)
(* of a text completion, choices[0].text.                                  *)
AIClient_local_chat_completion_TextShape(messages, model, temperature, max_tokens, kwargs) ==
  PyDict([choices |->
            PyList(<<PyDict([text |-> PyStr(LocalChatText),
                             finish_reason |-> PyStr("stop"),
                             index |-> PyInt(0)])>>),
          model |-> PyStr(model),
          usage |-> StubUsage])

(* A variant of AIClient._local_chat_completion that counts the prompt     *)
(* tokens from the messages (10 for each) in place of the fixed usage.     *)
AIClient_local_chat_completion_CountingTokens(messages, model, temperature, max_tokens, kwargs) ==
  PyDict([choices |->
            PyList(<<PyDict([message |->
                               PyDict([content |-> PyStr(LocalChatText),
                                       role |-> PyStr("assistant")]),
                             finish_reason |-> PyStr("stop"),
                             index |-> PyInt(0)])>>),
          model |-> PyStr(model),
          usage |-> PyDict([completion_tokens |-> PyInt(20),
                            prompt_tokens |-> PyInt(10 * Len(messages.v)),
                            total_tokens |-> PyInt(20 + 10 * Len(messages.v))])])

(* AIClient._local_chat_completion: every argument but model is ignored. *)
AIClient_local_chat_completion(messages, model, temperature, max_tokens, kwargs) ==
  PyDict([choices |->
            PyList(<<PyDict([message |->
                               PyDict([content |-> PyStr(LocalChatText),
                                       role |-> PyStr("assistant")]),
                             finish_reason |-> PyStr("stop"),
                             index |-> PyInt(0)])>>),
          model |-> PyStr(model),
          usage |-> StubUsage])

(* A variant of AIClient._local_text_completion that answers in the shape  *)
(* of a chat completion, choices[0].message.content.                       *)
AIClient_local_text_completion_ChatShape(prompt, model, temperature, max_tokens, kwargs) ==
  PyDict([choices |->
            PyList(<<PyDict([message |->
                               PyDict([content |-> PyStr(LocalTextText),
                                       role |-> PyStr("assistant")]),
                             finish_reason |-> PyStr("stop"),
                             index |-> PyInt(0)])>>),
          model |-> PyStr(model),
          usage |-> StubUsage])

(* AIClient._local_text_completion *)
AIClient_local_text_completion(prompt, model, temperature, max_tokens, kwargs) ==
  PyDict([choices |->
            PyList(<<PyDict([text |-> PyStr(LocalTextText),
                             finish_reason |-> PyStr("stop"),
                             index |-> PyInt(0)])>>),
          model |-> PyStr(model),
          usage |-> StubUsage])

(* The dimension of the stub's embedding (ai_client.py:520). *)
EmbeddingDim == 1536
(* random.random() yields a float in [0.0, 1.0): here a number of          *)
(* thousandths in 0..999.  The generator's state is the seed; which value  *)
(* comes out is the environment's choice, a function of seed and position. *)
RandomResolution == 1000
random_random(seed, i) == (seed * 7919 + i * 613) % RandomResolution

(* A variant of AIClient._local_embedding that sizes the vector by the     *)
(* model: 1536 values for the default models, 768 for any other.           *)
AIClient_local_embedding_SizedByModel(text, model, seed) ==
  LET dim == IF model \in {"local-embedding", "text-embedding-ada-002",
                           "deepseek-embedding", "llama2"}
               THEN EmbeddingDim ELSE 768
  IN  PyList([i \in 1..dim |-> PyFloat(random_random(seed, i))])

(* AIClient._local_embedding: [random.random() for _ in range(1536)] *)
AIClient_local_embedding(text, model, seed) ==
  PyList([i \in 1..EmbeddingDim |-> PyFloat(random_random(seed, i))])

----------------------------------------------------------------------------
(* AIClient's operations.  Each yields [trace |-> the transport and stub   *)
(* calls it made, in order, outcome |-> Return(value) or Raise(error)].    *)

(* "设置默认模型": the default model of (provider, operation). *)
(* A variant of the defaults in which text_completion takes the chat       *)
(* model of the provider.                                                  *)
DefaultModel_ChatForText(provider, op) ==
  CASE op \in {"chat_completion", "text_completion"} ->
         (CASE provider = OPENAI -> "gpt-3.5-turbo"
            [] provider = DEEPSEEK -> "deepseek-chat"
            [] provider = OLLAMA -> "llama2"
            [] OTHER -> "local-model")
    [] OTHER ->
         (CASE provider = OPENAI -> "text-embedding-ada-002"
            [] provider = DEEPSEEK -> "deepseek-embedding"
            [] provider = OLLAMA -> "llama2"
            [] OTHER -> "local-embedding")

DefaultModel(provider, op) ==
  CASE op = "chat_completion" ->
         (CASE provider = OPENAI -> "gpt-3.5-turbo"
            [] provider = DEEPSEEK -> "deepseek-chat"
            [] provider = OLLAMA -> "llama2"
            [] OTHER -> "local-model")
    [] op = "text_completion" ->
         (CASE provider = OPENAI -> "gpt-3.5-turbo-instruct"
            [] provider = DEEPSEEK -> "deepseek-coder"
            [] provider = OLLAMA -> "llama2"
            [] OTHER -> "local-model")
    [] OTHER ->
         (CASE provider = OPENAI -> "text-embedding-ada-002"
            [] provider = DEEPSEEK -> "deepseek-embedding"
            [] provider = OLLAMA -> "llama2"
            [] OTHER -> "local-embedding")

(* "if model is None: model = <default>" *)
EffectiveModel(provider, op, model) ==
  IF model = None THEN DefaultModel(provider, op) ELSE model[1]

(* A variant of the hosted payload that nests the generation controls      *)
(* under "options", as the Ollama payload does.                            *)
HostedPayload_Nested(inputKey, input, model, temperature, max_tokens, kwargs) ==
  kwargs @@ (("model" :> PyStr(model)) @@ (inputKey :> input)
    @@ ("options" :>
          PyDict(("temperature" :> temperature)
                 @@ (IF max_tokens # None
                       THEN ("max_tokens" :> PyInt(max_tokens[1])) ELSE <<>>))))

(* The payload of OPENAI and DEEPSEEK for chat (inputKey "messages") and   *)
(* text (inputKey "prompt"): {"model", inputKey, "temperature", **kwargs},  *)
(* then payload["max_tokens"] when max_tokens is given.                    *)
HostedPayload(inputKey, input, model, temperature, max_tokens, kwargs) ==
  LET base == kwargs @@ (("model" :> PyStr(model)) @@ (inputKey :> input)
                          @@ ("temperature" :> temperature))
  IN  IF max_tokens # None
        THEN ("max_tokens" :> PyInt(max_tokens[1])) @@ base
        ELSE base

(* The options of an Ollama request. *)
OllamaOptions(temperature, max_tokens) ==
  (IF temperature # PyNone THEN ("temperature" :> temperature) ELSE <<>>)
  @@ (IF max_tokens # None THEN ("num_predict" :> PyInt(max_tokens[1])) ELSE <<>>)

(* The payload AIClient builds for OLLAMA: kwargs are not used. *)
AIClient_OllamaPayload(inputKey, input, model, temperature, max_tokens) ==
  LET base == ("model" :> PyStr(model)) @@ (inputKey :> input)
              @@ ("stream" :> PyBool(FALSE))
      options == OllamaOptions(temperature, max_tokens)
  IN  IF DOMAIN options # {} THEN base @@ ("options" :> PyDict(options)) ELSE base

(* The body of the try block of chat_completion and text_completion:       *)
(* [event |-> the call made, result |-> Ok(value) or Err(error)].          *)
CompletionAttempt(self, hostedPath, ollamaPath, libMethod, inputKey, input, model, temperature, max_tokens, kwargs, stubFn, stubValue, t) ==
  IF self.provider = OPENAI /\ self.has_client THEN
    [event |-> LibraryEvent(libMethod,
                 kwargs @@ (("model" :> PyStr(model)) @@ (inputKey :> input)
                   @@ ("temperature" :> temperature)
                   @@ ("max_tokens" :> IF max_tokens = None THEN PyNone
                                       ELSE PyInt(max_tokens[1]))), t),
     result |-> LibraryResult(t)]
  ELSE IF self.provider \in {OPENAI, DEEPSEEK} THEN
    [event |-> PostEvent(self.base_url[1] \o hostedPath, self.headers,
                 HostedPayload(inputKey, input, model, temperature, max_tokens, kwargs), t),
     result |-> RequestsResult(t)]
  ELSE IF self.provider = OLLAMA THEN
    [event |-> PostEvent(self.base_url[1] \o ollamaPath, self.headers,
                 AIClient_OllamaPayload(inputKey, input, model, temperature, max_tokens), t),
     result |-> RequestsResult(t)]
  ELSE
    [event |-> StubEvent(stubFn), result |-> Ok(stubValue)]

(* A variant of the except clause that falls back on connection errors    *)
(* only: an error status is raised even when use_local_fallback is set.    *)
ExceptFallback_ConnectionOnly(self, attempt, stubFn, stubValue) ==
  IF attempt.result.ok THEN
    [trace |-> <<attempt.event>>, outcome |-> Return(attempt.result.v)]
  ELSE IF /\ self.use_local_fallback /\ self.provider # LOCAL_
          /\ attempt.result.exc.type \in {"ConnectionError", "APIConnectionError"} THEN
    [trace |-> <<attempt.event, StubEvent(stubFn)>>, outcome |-> Return(stubValue)]
  ELSE
    [trace |-> <<attempt.event>>, outcome |-> Raise(attempt.result.exc)]

(* "except Exception as e": the stub's value when use_local_fallback is    *)
(* set and the provider is not LOCAL, else the bare "raise" of e itself.   *)
ExceptFallback(self, attempt, stubFn, stubValue) ==
  IF attempt.result.ok THEN
    [trace |-> <<attempt.event>>, outcome |-> Return(attempt.result.v)]
  ELSE IF self.use_local_fallback /\ self.provider # LOCAL_ THEN
    [trace |-> <<attempt.event, StubEvent(stubFn)>>, outcome |-> Return(stubValue)]
  ELSE
    [trace |-> <<attempt.event>>, outcome |-> Raise(attempt.result.exc)]

AIClient_chat_completion(self, messages, model, temperature, max_tokens, kwargs, t) ==
  LET m == EffectiveModel(self.provider, "chat_completion", model)
      stub == AIClient_local_chat_completion(messages, m, temperature, max_tokens, kwargs)
  IN  ExceptFallback(self,
        CompletionAttempt(self, "/chat/completions", "/api/chat",
                          "chat.completions.create", "messages", messages,
                          m, temperature, max_tokens, kwargs,
                          "_local_chat_completion", stub, t),
        "_local_chat_completion", stub)

AIClient_text_completion(self, prompt, model, temperature, max_tokens, kwargs, t) ==
  LET m == EffectiveModel(self.provider, "text_completion", model)
      stub == AIClient_local_text_completion(prompt, m, temperature, max_tokens, kwargs)
  IN  ExceptFallback(self,
        CompletionAttempt(self, "/completions", "/api/generate",
                          "completions.create", "prompt", prompt,
                          m, temperature, max_tokens, kwargs,
                          "_local_text_completion", stub, t),
        "_local_text_completion", stub)

(* The body of the try block of create_embedding: the call and, inside the *)
(* same try, the extraction of the vector from the response.               *)
EmbeddingAttempt(self, text, model, stubValue, t) ==
  IF self.provider = OPENAI /\ self.has_client THEN
    LET r == LibraryResult(t)
    IN  [event |-> LibraryEvent("embeddings.create",
                     ("model" :> PyStr(model)) @@ ("input" :> text), t),
         result |-> IF r.ok
                      THEN ThenAttr(ThenIndex(GetAttr(r.v, "data"), 0), "embedding")
                      ELSE r]
  ELSE IF self.provider \in {OPENAI, DEEPSEEK} THEN
    LET r == RequestsResult(t)
    IN  [event |-> PostEvent(self.base_url[1] \o "/embeddings", self.headers,
                     ("model" :> PyStr(model)) @@ ("input" :> text), t),
         result |-> IF r.ok
                      THEN ThenKey(ThenIndex(GetKey(r.v, "data"), 0), "embedding")
                      ELSE r]
  ELSE IF self.provider = OLLAMA THEN
    LET r == RequestsResult(t)
    IN  [event |-> PostEvent(self.base_url[1] \o "/api/embeddings", self.headers,
                     ("model" :> PyStr(model)) @@ ("prompt" :> text), t),
         result |-> IF r.ok THEN GetKey(r.v, "embedding") ELSE r]
  ELSE
    [event |-> StubEvent("_local_embedding"), result |-> Ok(stubValue)]

AIClient_create_embedding(self, text, model, t, seed) ==
  LET m == EffectiveModel(self.provider, "create_embedding", model)
      stub == AIClient_local_embedding(text, m, seed)
  IN  ExceptFallback(self, EmbeddingAttempt(self, text, m, stub, t),
                     "_local_embedding", stub)

(* One requests.get(url) as an event of the trace: the call passes no      *)
(* headers argument, so none of the client's headers go with it.           *)
GetEvent(url, t) ==
  [ev |-> "requests.get", url |-> url, headers |-> <<>>, reply |-> t]

(* [model["name"] for model in response.json().get("models", [])] *)
ModelNames(body) ==
  IF body.t # "dict" THEN Err(PyExc("AttributeError"))
  ELSE
    LET models == IF "models" \in DOMAIN body.v THEN body.v.models ELSE PyList(<<>>)
    IN  CASE models.t = "list" ->
               LET names == [i \in 1..Len(models.v) |-> GetKey(models.v[i], "name")]
                   bad == {i \in 1..Len(models.v) : ~names[i].ok}
               IN  IF bad = {}
                     THEN Ok(PyList([i \in 1..Len(models.v) |-> names[i].v]))
                     ELSE names[CHOOSE i \in bad : \A j \in bad : i <= j]
          \* iterating a mapping or a string yields strings, and a string
          \* cannot be subscripted with "name"
          [] models.t = "dict" ->
               IF DOMAIN models.v = {} THEN Ok(PyList(<<>>)) ELSE Err(PyExc("TypeError"))
          [] models.t = "str" ->
               IF models.v = "" THEN Ok(PyList(<<>>)) ELSE Err(PyExc("TypeError"))
          [] OTHER -> Err(PyExc("TypeError"))

(* A variant of the model listing that handles the errors of the request   *)
(* only: an error of reading the names leaves the method.                  *)
ListModelsOutcome_RequestErrorsOnly(url, t) ==
  LET r == RequestsResult(t)
      names == IF r.ok THEN ModelNames(r.v) ELSE r
  IN  [trace |-> <<GetEvent(url, t)>>,
       outcome |-> IF names.ok THEN Return(names.v)
                   ELSE IF r.ok THEN Raise(names.exc)
                   ELSE Return(PyList(<<>>))]

(* The try block of the model listing with "except Exception: return []". *)
ListModelsOutcome(url, t) ==
  LET r == RequestsResult(t)
      names == IF r.ok THEN ModelNames(r.v) ELSE r
  IN  [trace |-> <<GetEvent(url, t)>>,
       outcome |-> IF names.ok THEN Return(names.v) ELSE Return(PyList(<<>>))]

(* AIClient.list_ollama_models *)
AIClient_list_ollama_models(self, t) ==
  IF self.provider # OLLAMA
    THEN [trace |-> <<>>, outcome |-> Return(PyList(<<>>))]
    ELSE ListModelsOutcome(self.base_url[1] \o "/api/tags", t)

----------------------------------------------------------------------------
(* The operations of OllamaClient, DeepSeekClient and OpenAIClient.  None  *)
(* has a fallback: "except Exception as e: print(...); raise".             *)

(* A call whose value is returned and whose error is re-raised. *)
ReturnOrRaise(event, result) ==
  [trace |-> <<event>>,
   outcome |-> IF result.ok THEN Return(result.v) ELSE Raise(result.exc)]

(* "model: str = <default>" of a signature: None stands for an argument    *)
(* the caller left out.                                                    *)
ModelOrDefault(model, default) == IF model = None THEN default ELSE model[1]

(* A variant of OllamaClient's payload that merges the extra arguments     *)
(* into the payload itself (payload.update(kwargs)).                       *)
OllamaClient_Payload_Merged(inputKey, input, model, temperature, max_tokens, kwargs) ==
  LET base == kwargs @@ (("model" :> PyStr(model)) @@ (inputKey :> input)
                          @@ ("stream" :> PyBool(FALSE)))
      options == OllamaOptions(temperature, max_tokens)
  IN  IF DOMAIN options # {} THEN base @@ ("options" :> PyDict(options)) ELSE base

(* The payload OllamaClient builds: the options of temperature and         *)
(* max_tokens, then every extra argument not named "model", inputKey,      *)
(* "stream" or "options" is put into payload["options"].                   *)
OllamaClient_Payload(inputKey, input, model, temperature, max_tokens, kwargs) ==
  LET base == ("model" :> PyStr(model)) @@ (inputKey :> input)
              @@ ("stream" :> PyBool(FALSE))
      extras == [k \in DOMAIN kwargs \ {"model", inputKey, "stream", "options"}
                   |-> kwargs[k]]
      options == extras @@ OllamaOptions(temperature, max_tokens)
  IN  IF DOMAIN options # {} THEN base @@ ("options" :> PyDict(options)) ELSE base

OllamaClient_chat_completion(self, messages, model, temperature, max_tokens, kwargs, t) ==
  ReturnOrRaise(
    PostEvent(self.base_url \o "/api/chat", self.headers,
      OllamaClient_Payload("messages", messages, ModelOrDefault(model, "llama2"),
                           temperature, max_tokens, kwargs), t),
    RequestsResult(t))

OllamaClient_text_completion(self, prompt, model, temperature, max_tokens, kwargs, t) ==
  ReturnOrRaise(
    PostEvent(self.base_url \o "/api/generate", self.headers,
      OllamaClient_Payload("prompt", prompt, ModelOrDefault(model, "llama2"),
                           temperature, max_tokens, kwargs), t),
    RequestsResult(t))

OllamaClient_create_embedding(self, text, model, t) ==
  ReturnOrRaise(
    PostEvent(self.base_url \o "/api/embeddings", self.headers,
      ("model" :> PyStr(ModelOrDefault(model, "llama2"))) @@ ("prompt" :> text), t),
    ThenKey(RequestsResult(t), "embedding"))

OllamaClient_list_models(self, t) ==
  ListModelsOutcome(self.base_url \o "/api/tags", t)

(* A variant of pull_model that answers a failure with an empty mapping,   *)
(* as the model listing answers it with an empty list.                     *)
OllamaClient_pull_model_Swallowing(self, model_name, t) ==
  LET r == RequestsResult(t)
  IN  [trace |-> <<PostEvent(self.base_url \o "/api/pull", self.headers,
                             ("name" :> PyStr(model_name)), t)>>,
       outcome |-> IF r.ok THEN Return(r.v) ELSE Return(EmptyDict)]

OllamaClient_pull_model(self, model_name, t) ==
  ReturnOrRaise(
    PostEvent(self.base_url \o "/api/pull", self.headers,
              ("name" :> PyStr(model_name)), t),
    RequestsResult(t))

DeepSeekClient_chat_completion(self, messages, model, temperature, max_tokens, kwargs, t) ==
  ReturnOrRaise(
    PostEvent(self.base_url \o "/chat/completions", self.headers,
      HostedPayload("messages", messages, ModelOrDefault(model, "deepseek-chat"),
                    temperature, max_tokens, kwargs), t),
    RequestsResult(t))

DeepSeekClient_text_completion(self, prompt, model, temperature, max_tokens, kwargs, t) ==
  ReturnOrRaise(
    PostEvent(self.base_url \o "/completions", self.headers,
      HostedPayload("prompt", prompt, ModelOrDefault(model, "deepseek-coder"),
                    temperature, max_tokens, kwargs), t),
    RequestsResult(t))

DeepSeekClient_create_embedding(self, text, model, t) ==
  ReturnOrRaise(
    PostEvent(self.base_url \o "/embeddings", self.headers,
      ("model" :> PyStr(ModelOrDefault(model, "deepseek-embedding")))
        @@ ("input" :> text), t),
    ThenKey(ThenIndex(ThenKey(RequestsResult(t), "data"), 0), "embedding"))

(* The keyword arguments of self.client.<...>.create(model=..., <inputKey>= *)
(* ..., temperature=..., max_tokens=..., **kwargs).                        *)
LibraryArgs(inputKey, input, model, temperature, max_tokens, kwargs) ==
  kwargs @@ (("model" :> PyStr(model)) @@ (inputKey :> input)
    @@ ("temperature" :> temperature)
    @@ ("max_tokens" :> IF max_tokens = None THEN PyNone ELSE PyInt(max_tokens[1])))

OpenAIClient_chat_completion(self, messages, model, temperature, max_tokens, kwargs, t) ==
  ReturnOrRaise(
    LibraryEvent("chat.completions.create",
      LibraryArgs("messages", messages, ModelOrDefault(model, "gpt-3.5-turbo"),
                  temperature, max_tokens, kwargs), t),
    LibraryResult(t))

OpenAIClient_text_completion(self, prompt, model, temperature, max_tokens, kwargs, t) ==
  ReturnOrRaise(
    LibraryEvent("completions.create",
      LibraryArgs("prompt", prompt, ModelOrDefault(model, "gpt-3.5-turbo-instruct"),
                  temperature, max_tokens, kwargs), t),
    LibraryResult(t))

OpenAIClient_create_embedding(self, text, model, t) ==
  ReturnOrRaise(
    LibraryEvent("embeddings.create",
      ("model" :> PyStr(ModelOrDefault(model, "text-embedding-ada-002")))
        @@ ("input" :> text), t),
    ThenAttr(ThenIndex(ThenAttr(LibraryResult(t), "data"), 0), "embedding"))

----------------------------------------------------------------------------
(* Extraction as the caller reaches it: the method of the client's class. *)
get_completion_text(self, response) ==
  CASE self.cls = "AIClient" -> AIClient_get_completion_text(self.provider, response)
    [] self.cls = "OllamaClient" -> OllamaClient_get_completion_text(response)
    [] self.cls = "DeepSeekClient" -> DeepSeekClient_get_completion_text(response)
    [] OTHER -> OpenAIClient_get_completion_text(response)

get_text_completion(self, response) ==
  CASE self.cls = "AIClient" -> AIClient_get_text_completion(self.provider, response)
    [] self.cls = "OllamaClient" -> OllamaClient_get_text_completion(response)
    [] self.cls = "DeepSeekClient" -> DeepSeekClient_get_text_completion(response)
    [] OTHER -> OpenAIClient_get_text_completion(response)

----------------------------------------------------------------------------
(* The inputs of the model: the arguments callers pass, the environment's  *)
(* values, the replies of the transport and the responses handed to the    *)
(* extractors.                                                             *)

EnvValues == {None, Some("sk-env")}
ApiKeys == {None, Some(""), Some("sk-arg")}
BaseUrls == {None, Some("http://proxy:8080/v1")}
ProviderArgs == AIProvider \cup {"azure"}
DeepSeekBaseUrls == {"https://api.deepseek.com/v1", "http://proxy:8080/v1"}
OllamaBaseUrls == {"http://localhost:11434", "http://proxy:8080"}

Message(role, content) == PyDict([role |-> PyStr(role), content |-> PyStr(content)])
Conversations ==
  <<PyList(<<Message("user", "hi")>>),
    PyList(<<Message("system", "be brief"), Message("user", "hi")>>)>>
Prompts == <<PyStr("poem"), PyStr("")>>
EmbeddingTexts == <<PyStr("some text"), PyStr("")>>
Models == {None, Some("custom-model")}
Temperatures == <<PyFloat(700), PyNone>>
MaxTokensArgs == {None, Some(16)}
KwargsArgs == << <<>>, ("stream" :> PyBool(TRUE)) @@ ("top_p" :> PyFloat(900)) >>
(* The states of the random generator the stub may be called in. *)
NumSeeds == 2

(* The texts a provider may answer with. *)
Texts == <<"hello", "">>

(* choices[0].message.content: the chat response of OPENAI and DEEPSEEK. *)
HostedChatResponse(text) ==
  PyDict([choices |->
            PyList(<<PyDict([message |-> PyDict([role |-> PyStr("assistant"),
                                                 content |-> text]),
                             finish_reason |-> PyStr("stop"),
                             index |-> PyInt(0)])>>)])

(* choices[0].text: the text-completion response of OPENAI and DEEPSEEK. *)
HostedTextResponse(text) ==
  PyDict([choices |->
            PyList(<<PyDict([text |-> text, finish_reason |-> PyStr("stop"),
                             index |-> PyInt(0)])>>)])

(* message.content: the chat response of an Ollama server. *)
OllamaChatResponse(text) ==
  PyDict([model |-> PyStr("llama2"),
          message |-> PyDict([role |-> PyStr("assistant"), content |-> text]),
          done |-> PyBool(TRUE)])

(* response: the text-generation response of an Ollama server. *)
OllamaTextResponse(text) ==
  PyDict([model |-> PyStr("llama2"), response |-> text, done |-> PyBool(TRUE)])

(* The openai library's ChatCompletion and Completion objects. *)
LibraryChatResponse(text) ==
  PyObj([choices |->
           PyList(<<PyObj([message |-> PyObj([role |-> PyStr("assistant"),
                                              content |-> text]),
                           finish_reason |-> PyStr("stop"),
                           index |-> PyInt(0)])>>)])

LibraryTextResponse(text) ==
  PyObj([choices |->
           PyList(<<PyObj([text |-> text, finish_reason |-> PyStr("stop"),
                           index |-> PyInt(0)])>>)])

(* A short embedding vector, as a server returns it. *)
ServerVector == PyList(<<PyFloat(125), PyFloat(-500), PyFloat(2000)>>)
HostedEmbeddingResponse == PyDict([data |-> PyList(<<PyDict([embedding |-> ServerVector])>>)])
OllamaEmbeddingResponse == PyDict([embedding |-> ServerVector])
LibraryEmbeddingResponse == PyObj([data |-> PyList(<<PyObj([embedding |-> ServerVector])>>)])

Failures == <<[fail |-> "connect"], [fail |-> "status"], [fail |-> "decode"]>>
NonJson == [fail |-> "nonjson"]
Reply(body) == [fail |-> "none", body |-> body]

(* Responses in which a key of the path is missing. *)
MissingKeyResponses ==
  <<EmptyDict,
    PyDict([choices |-> PyList(<<>>)]),
    PyDict([choices |-> PyList(<<EmptyDict>>)]),
    PyDict([choices |-> PyList(<<PyDict([message |-> EmptyDict])>>)]),
    PyDict([message |-> EmptyDict]),
    PyDict([model |-> PyStr("llama2"), done |-> PyBool(TRUE)])>>

(* Responses of the wrong shape. *)
WrongShapeResponses ==
  <<PyNone,
    PyList(<<>>),
    PyInt(5),
    PyStr("message"),
    PyDict([message |-> PyNone]),
    PyDict([message |-> PyStr("abc")]),
    PyDict([choices |-> PyNone]),
    PyDict([choices |-> PyStr("abc")]),
    PyDict([choices |-> PyList(<<PyNone>>)]),
    PyDict([choices |-> PyList(<<PyDict([message |-> PyNone])>>)]),
    PyDict([response |-> PyInt(5)])>>

(* Responses of the expected shape, with a text or with null in its place. *)
CanonicalResponses ==
  <<HostedChatResponse(PyStr(Texts[1])), HostedChatResponse(PyStr(Texts[2])),
    HostedChatResponse(PyNone),
    OllamaChatResponse(PyStr(Texts[1])), OllamaChatResponse(PyStr(Texts[2])),
    OllamaChatResponse(PyNone),
    LibraryChatResponse(PyStr(Texts[1])), LibraryChatResponse(PyNone),
    HostedTextResponse(PyStr(Texts[1])), HostedTextResponse(PyNone),
    OllamaTextResponse(PyStr(Texts[1])), OllamaTextResponse(PyNone),
    LibraryTextResponse(PyStr(Texts[1])), LibraryTextResponse(PyNone)>>

(* Every response the model hands to an extractor directly. *)
Responses == CanonicalResponses \o MissingKeyResponses \o WrongShapeResponses

(* What the transport may do with a chat, text or embedding call, through  *)
(* requests and through the openai library.                                *)
JsonChatReplies ==
  Failures \o <<Reply(HostedChatResponse(PyStr(Texts[1]))),
                Reply(OllamaChatResponse(PyStr(Texts[1]))),
                Reply(EmptyDict), NonJson>>
LibraryChatReplies ==
  Failures \o <<Reply(LibraryChatResponse(PyStr(Texts[1]))),
                Reply(LibraryChatResponse(PyNone)), NonJson>>
JsonTextReplies ==
  Failures \o <<Reply(HostedTextResponse(PyStr(Texts[1]))),
                Reply(OllamaTextResponse(PyStr(Texts[1]))),
                Reply(EmptyDict), NonJson>>
LibraryTextReplies ==
  Failures \o <<Reply(LibraryTextResponse(PyStr(Texts[1]))), NonJson>>
JsonEmbeddingReplies ==
  Failures \o <<Reply(HostedEmbeddingResponse), Reply(OllamaEmbeddingResponse),
                Reply(EmptyDict), Reply(PyDict([data |-> PyList(<<>>)])),
                Reply(PyNone), NonJson>>
LibraryEmbeddingReplies ==
  Failures \o <<Reply(LibraryEmbeddingResponse), Reply(PyObj([data |-> PyList(<<>>)])),
                NonJson>>

(* What the server may answer to GET /api/tags and to POST /api/pull. *)
ListReplies ==
  Failures \o
  <<Reply(PyDict([models |-> PyList(<<PyDict([name |-> PyStr("llama2:latest")]),
                                      PyDict([name |-> PyStr("mistral")])>>)])),
    Reply(PyDict([models |-> PyList(<<PyDict([name |-> PyStr("mistral")]),
                                      PyDict([size |-> PyInt(5)])>>)])),
    Reply(EmptyDict),
    Reply(PyDict([models |-> PyNone])),
    Reply(PyList(<<>>))>>
PullReplies == Failures \o <<Reply(PyDict([status |-> PyStr("success")]))>>
ModelNameArgs == {"llama2", "mistral"}

UsesLibrary(self) == self.provider = OPENAI /\ self.has_client

(* The replies an operation of this client may meet: a LOCAL client makes  *)
(* no call, so nothing of the reply reaches it.                            *)
RepliesFor(self, json, library) ==
  IF self.provider = LOCAL_ THEN <<Failures[1]>>
  ELSE IF UsesLibrary(self) THEN library ELSE json

----------------------------------------------------------------------------
(* The state machine: a client is constructed, then its operations are     *)
(* called in any order, any number of times.                               *)

NoCall == [op |-> "none"]

NoCtor == [cls |-> "none"]

(* os.environ as a constructor may find it. *)
Environs == [OPENAI_API_KEY : EnvValues, DEEPSEEK_API_KEY : EnvValues]

(* The threads that may call one client at the same time, each either     *)
(* outside a call or somewhere in one; a call in progress has a frame.     *)
NumThreads == 2
Threads == 1..NumThreads
IdleThread == [pc |-> "idle"]
NoFrame == [event |-> <<>>]

Init ==
  /\ client = NoClient
  /\ ctor = NoCtor
  /\ call = NoCall
  /\ trace = <<>>
  /\ outcome = NoOutcome
  /\ threads = [th \in Threads |-> IdleThread]
  /\ frames = [th \in Threads |-> NoFrame]

(* A constructor call with result r, made with args in the environment    *)
(* environ (and lib: whether the openai library can be imported): the      *)
(* client exists only if the constructor returned.                         *)
Constructed(cls, args, environ, lib, r) ==
  /\ client = NoClient
  /\ ctor = NoCtor
  /\ client' = IF r.kind = "return" THEN r.value ELSE NoClient
  /\ ctor' = [cls |-> cls, args |-> args, environ |-> environ, openai_lib |-> lib,
              result |-> IF r.kind = "return" THEN "ok" ELSE r.exc.type]
  /\ UNCHANGED <<call, trace, outcome, threads, frames>>

(* AIClient(provider, api_key, base_url, use_local_fallback) *)
NewAIClient ==
  \E provider \in ProviderArgs, api_key \in ApiKeys, base_url \in BaseUrls,
     use_local_fallback \in BOOLEAN, env \in Environs, openai_lib \in BOOLEAN :
    Constructed("AIClient",
                [provider |-> provider, api_key |-> api_key, base_url |-> base_url,
                 use_local_fallback |-> use_local_fallback],
                env, openai_lib,
                AIClient_init(provider, api_key, base_url, use_local_fallback,
                              env, openai_lib))

(* OpenAIClient(api_key): openai_client.py imports the library at its top, *)
(* so the class exists only where the library does.                        *)
NewOpenAIClient ==
  \E api_key \in ApiKeys, env \in Environs :
    Constructed("OpenAIClient", [api_key |-> api_key], env, TRUE,
                OpenAIClient_init(api_key, env))

(* DeepSeekClient(api_key, base_url) *)
NewDeepSeekClient ==
  \E api_key \in ApiKeys, base_url \in DeepSeekBaseUrls, env \in Environs :
    Constructed("DeepSeekClient", [api_key |-> api_key, base_url |-> base_url],
                env, FALSE, DeepSeekClient_init(api_key, base_url, env))

(* OllamaClient(base_url, api_key) *)
NewOllamaClient ==
  \E api_key \in ApiKeys, base_url \in OllamaBaseUrls, env \in Environs :
    Constructed("OllamaClient", [api_key |-> api_key, base_url |-> base_url],
                env, FALSE, OllamaClient_init(base_url, api_key))

(* A variant of an operation's effect in which a call that fell back to    *)
(* the stub leaves the client switched to the LOCAL provider.              *)
Called_SwitchingToLocal(op, args, r) ==
  /\ call = NoCall
  /\ ctor = NoCtor
  /\ call' = [op |-> op, args |-> args]
  /\ trace' = r.trace
  /\ outcome' = r.outcome
  /\ client' = IF Len(r.trace) = 2 THEN [client EXCEPT !.provider = LOCAL_]
                                    ELSE client
  /\ UNCHANGED <<ctor, threads, frames>>

(* An operation of the client, called with args, that did r.  The caller  *)
(* calls it when it holds no result of an earlier call.                    *)
Called(op, args, r) ==
  /\ call = NoCall
  /\ ctor = NoCtor
  /\ call' = [op |-> op, args |-> args]
  /\ trace' = r.trace
  /\ outcome' = r.outcome
  /\ UNCHANGED <<client, ctor, threads, frames>>

(* client.chat_completion(messages, model, temperature, max_tokens, **kwargs) *)
ChatCompletion ==
  /\ client.cls = "AIClient"
  /\ \E i \in 1..Len(Conversations), model \in Models,
        j \in 1..Len(Temperatures), max_tokens \in MaxTokensArgs,
        k \in 1..Len(KwargsArgs),
        n \in 1..Len(RepliesFor(client, JsonChatReplies, LibraryChatReplies)) :
       Called("chat_completion",
              [messages |-> Conversations[i], model |-> model,
               temperature |-> Temperatures[j], max_tokens |-> max_tokens,
               kwargs |-> KwargsArgs[k]],
              AIClient_chat_completion(client, Conversations[i], model,
                Temperatures[j], max_tokens, KwargsArgs[k],
                RepliesFor(client, JsonChatReplies, LibraryChatReplies)[n]))

(* client.text_completion(prompt, model, temperature, max_tokens, **kwargs) *)
TextCompletion ==
  /\ client.cls = "AIClient"
  /\ \E i \in 1..Len(Prompts), model \in Models,
        j \in 1..Len(Temperatures), max_tokens \in MaxTokensArgs,
        k \in 1..Len(KwargsArgs),
        n \in 1..Len(RepliesFor(client, JsonTextReplies, LibraryTextReplies)) :
       Called("text_completion",
              [prompt |-> Prompts[i], model |-> model,
               temperature |-> Temperatures[j], max_tokens |-> max_tokens,
               kwargs |-> KwargsArgs[k]],
              AIClient_text_completion(client, Prompts[i], model,
                Temperatures[j], max_tokens, KwargsArgs[k],
                RepliesFor(client, JsonTextReplies, LibraryTextReplies)[n]))

(* client.create_embedding(text, model) *)
CreateEmbedding ==
  /\ client.cls = "AIClient"
  /\ \E i \in 1..Len(EmbeddingTexts), model \in Models, seed \in 0..(NumSeeds - 1),
        n \in 1..Len(RepliesFor(client, JsonEmbeddingReplies, LibraryEmbeddingReplies)) :
       Called("create_embedding",
              [text |-> EmbeddingTexts[i], model |-> model],
              AIClient_create_embedding(client, EmbeddingTexts[i], model,
                RepliesFor(client, JsonEmbeddingReplies, LibraryEmbeddingReplies)[n],
                seed))

(* client.list_ollama_models() *)
ListOllamaModels ==
  /\ client.cls = "AIClient"
  /\ \E n \in 1..Len(ListReplies) :
       Called("list_ollama_models", <<>>,
              AIClient_list_ollama_models(client, ListReplies[n]))

(* OllamaClient.chat_completion(messages, model, temperature, max_tokens, **kwargs) *)
OllamaChatCompletion ==
  /\ client.cls = "OllamaClient"
  /\ \E i \in 1..Len(Conversations), model \in Models,
        j \in 1..Len(Temperatures), max_tokens \in MaxTokensArgs,
        k \in 1..Len(KwargsArgs), n \in 1..Len(JsonChatReplies) :
       Called("chat_completion",
              [messages |-> Conversations[i], model |-> model,
               temperature |-> Temperatures[j], max_tokens |-> max_tokens,
               kwargs |-> KwargsArgs[k]],
              OllamaClient_chat_completion(client, Conversations[i], model,
                Temperatures[j], max_tokens, KwargsArgs[k], JsonChatReplies[n]))

(* OllamaClient.text_completion(prompt, model, temperature, max_tokens, **kwargs) *)
OllamaTextCompletion ==
  /\ client.cls = "OllamaClient"
  /\ \E i \in 1..Len(Prompts), model \in Models,
        j \in 1..Len(Temperatures), max_tokens \in MaxTokensArgs,
        k \in 1..Len(KwargsArgs), n \in 1..Len(JsonTextReplies) :
       Called("text_completion",
              [prompt |-> Prompts[i], model |-> model,
               temperature |-> Temperatures[j], max_tokens |-> max_tokens,
               kwargs |-> KwargsArgs[k]],
              OllamaClient_text_completion(client, Prompts[i], model,
                Temperatures[j], max_tokens, KwargsArgs[k], JsonTextReplies[n]))

(* OllamaClient.create_embedding(text, model) *)
OllamaCreateEmbedding ==
  /\ client.cls = "OllamaClient"
  /\ \E i \in 1..Len(EmbeddingTexts), model \in Models, n \in 1..Len(JsonEmbeddingReplies) :
       Called("create_embedding",
              [text |-> EmbeddingTexts[i], model |-> model],
              OllamaClient_create_embedding(client, EmbeddingTexts[i], model, JsonEmbeddingReplies[n]))

(* OllamaClient.list_models() *)
OllamaListModels ==
  /\ client.cls = "OllamaClient"
  /\ \E n \in 1..Len(ListReplies) :
       Called("list_models", <<>>, OllamaClient_list_models(client, ListReplies[n]))

(* OllamaClient.pull_model(model_name) *)
OllamaPullModel ==
  /\ client.cls = "OllamaClient"
  /\ \E model_name \in ModelNameArgs, n \in 1..Len(PullReplies) :
       Called("pull_model", [model_name |-> model_name],
              OllamaClient_pull_model(client, model_name, PullReplies[n]))

(* DeepSeekClient.chat_completion(messages, model, temperature, max_tokens, **kwargs) *)
DeepSeekChatCompletion ==
  /\ client.cls = "DeepSeekClient"
  /\ \E i \in 1..Len(Conversations), model \in Models,
        j \in 1..Len(Temperatures), max_tokens \in MaxTokensArgs,
        k \in 1..Len(KwargsArgs), n \in 1..Len(JsonChatReplies) :
       Called("chat_completion",
              [messages |-> Conversations[i], model |-> model,
               temperature |-> Temperatures[j], max_tokens |-> max_tokens,
               kwargs |-> KwargsArgs[k]],
              DeepSeekClient_chat_completion(client, Conversations[i], model,
                Temperatures[j], max_tokens, KwargsArgs[k], JsonChatReplies[n]))

(* DeepSeekClient.text_completion(prompt, model, temperature, max_tokens, **kwargs) *)
DeepSeekTextCompletion ==
  /\ client.cls = "DeepSeekClient"
  /\ \E i \in 1..Len(Prompts), model \in Models,
        j \in 1..Len(Temperatures), max_tokens \in MaxTokensArgs,
        k \in 1..Len(KwargsArgs), n \in 1..Len(JsonTextReplies) :
       Called("text_completion",
              [prompt |-> Prompts[i], model |-> model,
               temperature |-> Temperatures[j], max_tokens |-> max_tokens,
               kwargs |-> KwargsArgs[k]],
              DeepSeekClient_text_completion(client, Prompts[i], model,
                Temperatures[j], max_tokens, KwargsArgs[k], JsonTextReplies[n]))

(* DeepSeekClient.create_embedding(text, model) *)
DeepSeekCreateEmbedding ==
  /\ client.cls = "DeepSeekClient"
  /\ \E i \in 1..Len(EmbeddingTexts), model \in Models, n \in 1..Len(JsonEmbeddingReplies) :
       Called("create_embedding",
              [text |-> EmbeddingTexts[i], model |-> model],
              DeepSeekClient_create_embedding(client, EmbeddingTexts[i], model, JsonEmbeddingReplies[n]))

(* OpenAIClient.chat_completion(messages, model, temperature, max_tokens, **kwargs) *)
OpenAIChatCompletion ==
  /\ client.cls = "OpenAIClient"
  /\ \E i \in 1..Len(Conversations), model \in Models,
        j \in 1..Len(Temperatures), max_tokens \in MaxTokensArgs,
        k \in 1..Len(KwargsArgs), n \in 1..Len(LibraryChatReplies) :
       Called("chat_completion",
              [messages |-> Conversations[i], model |-> model,
               temperature |-> Temperatures[j], max_tokens |-> max_tokens,
               kwargs |-> KwargsArgs[k]],
              OpenAIClient_chat_completion(client, Conversations[i], model,
                Temperatures[j], max_tokens, KwargsArgs[k], LibraryChatReplies[n]))

(* OpenAIClient.text_completion(prompt, model, temperature, max_tokens, **kwargs) *)
OpenAITextCompletion ==
  /\ client.cls = "OpenAIClient"
  /\ \E i \in 1..Len(Prompts), model \in Models,
        j \in 1..Len(Temperatures), max_tokens \in MaxTokensArgs,
        k \in 1..Len(KwargsArgs), n \in 1..Len(LibraryTextReplies) :
       Called("text_completion",
              [prompt |-> Prompts[i], model |-> model,
               temperature |-> Temperatures[j], max_tokens |-> max_tokens,
               kwargs |-> KwargsArgs[k]],
              OpenAIClient_text_completion(client, Prompts[i], model,
                Temperatures[j], max_tokens, KwargsArgs[k], LibraryTextReplies[n]))

(* OpenAIClient.create_embedding(text, model) *)
OpenAICreateEmbedding ==
  /\ client.cls = "OpenAIClient"
  /\ \E i \in 1..Len(EmbeddingTexts), model \in Models, n \in 1..Len(LibraryEmbeddingReplies) :
       Called("create_embedding",
              [text |-> EmbeddingTexts[i], model |-> model],
              OpenAIClient_create_embedding(client, EmbeddingTexts[i], model, LibraryEmbeddingReplies[n]))

(* An extractor applied to a response; it makes no call of its own.  "of"  *)
(* is the operation whose returned value the response is, with its trace,  *)
(* or NoCall for a response the caller got elsewhere.                      *)
Extracted(op, response, of, r) ==
  /\ call.op \notin {"get_completion_text", "get_text_completion"}
  /\ ctor = NoCtor
  /\ call' = [op |-> op, response |-> response, of |-> of]
  /\ trace' = <<>>
  /\ outcome' = r
  /\ UNCHANGED <<client, ctor, threads, frames>>

(* client.get_completion_text(response) on a response of the caller's. *)
GetCompletionText ==
  /\ client # NoClient
  /\ call = NoCall
  /\ \E i \in 1..Len(Responses) :
       Extracted("get_completion_text", Responses[i], [call |-> NoCall, trace |-> <<>>],
                 get_completion_text(client, Responses[i]))

(* client.get_completion_text(client.chat_completion(...)) *)
GetCompletionTextOfChat ==
  /\ client # NoClient
  /\ call.op = "chat_completion"
  /\ outcome.kind = "return"
  /\ Extracted("get_completion_text", outcome.value, [call |-> call, trace |-> trace],
               get_completion_text(client, outcome.value))

(* client.get_text_completion(response) on a response of the caller's. *)
GetTextCompletion ==
  /\ client # NoClient
  /\ call = NoCall
  /\ \E i \in 1..Len(Responses) :
       Extracted("get_text_completion", Responses[i], [call |-> NoCall, trace |-> <<>>],
                 get_text_completion(client, Responses[i]))

(* client.get_text_completion(client.text_completion(...)) *)
GetTextCompletionOfText ==
  /\ client # NoClient
  /\ call.op = "text_completion"
  /\ outcome.kind = "return"
  /\ Extracted("get_text_completion", outcome.value, [call |-> call, trace |-> trace],
               get_text_completion(client, outcome.value))

(* The caller is done with the result of the last call, of a constructor   *)
(* or of an operation.                                                     *)
ReturnToCaller ==
  /\ call # NoCall \/ ctor # NoCtor
  /\ call' = NoCall
  /\ trace' = <<>>
  /\ outcome' = NoOutcome
  /\ ctor' = NoCtor
  /\ UNCHANGED <<client, threads, frames>>

Next ==
  \/ NewAIClient
  \/ NewOpenAIClient
  \/ NewDeepSeekClient
  \/ NewOllamaClient
  \/ ChatCompletion
  \/ TextCompletion
  \/ CreateEmbedding
  \/ ListOllamaModels
  \/ OllamaChatCompletion
  \/ OllamaTextCompletion
  \/ OllamaCreateEmbedding
  \/ OllamaListModels
  \/ OllamaPullModel
  \/ DeepSeekChatCompletion
  \/ DeepSeekTextCompletion
  \/ DeepSeekCreateEmbedding
  \/ OpenAIChatCompletion
  \/ OpenAITextCompletion
  \/ OpenAICreateEmbedding
  \/ GetCompletionText
  \/ GetCompletionTextOfChat
  \/ GetTextCompletion
  \/ GetTextCompletionOfText
  \/ ReturnToCaller

Spec == Init /\ [][Next]_vars

----------------------------------------------------------------------------
(* Concurrent callers.  Several threads call chat_completion and           *)
(* text_completion of one AIClient without a lock.                         *)
(* A call is four steps, and the steps of different threads interleave:    *)
(* the call is entered; its try block builds the request and hands it to   *)
(* the transport; the transport answers or raises; the call ends in the    *)
(* return or the except clause.                                            *)

(* The clients the threads share, and the calls and replies they draw from. *)
ConcEnviron == [OPENAI_API_KEY |-> None, DEEPSEEK_API_KEY |-> None]
ConcClients ==
  {AIClient_init(provider, Some("sk-arg"), None, fallback, ConcEnviron, TRUE).value :
     provider \in {OPENAI, OLLAMA}, fallback \in BOOLEAN}
ConcCalls ==
  <<[op |-> "chat_completion",
     args |-> [messages |-> Conversations[1], model |-> None,
               temperature |-> Temperatures[1], max_tokens |-> None,
               kwargs |-> KwargsArgs[1]]],
    [op |-> "text_completion",
     args |-> [prompt |-> Prompts[1], model |-> Some("custom-model"),
               temperature |-> Temperatures[2], max_tokens |-> Some(16),
               kwargs |-> KwargsArgs[2]]],
    [op |-> "chat_completion",
     args |-> [messages |-> Conversations[2], model |-> Some("custom-model"),
               temperature |-> Temperatures[2], max_tokens |-> Some(16),
               kwargs |-> KwargsArgs[1]]]>>
ConcReplies(self, op) ==
  LET all == IF op = "chat_completion"
             THEN RepliesFor(self, JsonChatReplies, LibraryChatReplies)
             ELSE RepliesFor(self, JsonTextReplies, LibraryTextReplies)
  IN  <<all[1], all[4], all[Len(all) - 1]>>

(* A variant in which the locals of the try block are kept as attributes   *)
(* of the client object (self.payload, self.response), one place for all   *)
(* the calls in progress.                                                  *)
Frame_OnInstance(th) == 1

(* The frame of the call thread th is in: url, payload and response are    *)
(* locals of the method, so every call has a frame of its own.             *)
Frame(th) == th

(* The stub of an operation: its name and what it would return. *)
StubOf(self, c) ==
  LET m == EffectiveModel(self.provider, c.op, c.args.model)
  IN  IF c.op = "chat_completion"
      THEN [fn |-> "_local_chat_completion",
            value |-> AIClient_local_chat_completion(c.args.messages, m,
                        c.args.temperature, c.args.max_tokens, c.args.kwargs)]
      ELSE [fn |-> "_local_text_completion",
            value |-> AIClient_local_text_completion(c.args.prompt, m,
                        c.args.temperature, c.args.max_tokens, c.args.kwargs)]

(* The try block of the call c when the transport does t. *)
TryBlock(self, c, t) ==
  LET m == EffectiveModel(self.provider, c.op, c.args.model)
      stub == StubOf(self, c)
  IN  IF c.op = "chat_completion"
      THEN CompletionAttempt(self, "/chat/completions", "/api/chat",
             "chat.completions.create", "messages", c.args.messages, m,
             c.args.temperature, c.args.max_tokens, c.args.kwargs,
             stub.fn, stub.value, t)
      ELSE CompletionAttempt(self, "/completions", "/api/generate",
             "completions.create", "prompt", c.args.prompt, m,
             c.args.temperature, c.args.max_tokens, c.args.kwargs,
             stub.fn, stub.value, t)

(* A thread's record names its call and the reply it met by their places  *)
(* in ConcCalls and ConcReplies.                                           *)
CallOf(th) == ConcCalls[threads[th].call]
ReplyOf(th) == ConcReplies(client, CallOf(th).op)[threads[th].reply]

(* Thread th enters a method of the client. *)
Invoke(th) ==
  /\ threads[th].pc = "idle"
  /\ \E i \in 1..Len(ConcCalls) :
       threads' = [threads EXCEPT ![th] = [pc |-> "called", call |-> i]]
  /\ UNCHANGED <<client, ctor, call, trace, outcome, frames>>

(* The request the try block of the call c builds: the transport event    *)
(* without the reply, which does not exist yet.                            *)
BuiltRequest(self, c) ==
  LET e == TryBlock(self, c, Failures[1]).event
  IN  [f \in DOMAIN e \ {"reply"} |-> e[f]]

(* What the try block gets from the transport that does t with request. *)
TransportResult(request, t) ==
  IF request.ev = "openai" THEN LibraryResult(t) ELSE RequestsResult(t)

(* The try block of th's call builds url and payload and hands the request *)
(* to the transport, where the thread waits (a blocking network call)      *)
(* while other threads run.                                                *)
Send(th) ==
  /\ threads[th].pc = "called"
  /\ frames' = [frames EXCEPT ![Frame(th)] =
                  ("request" :> BuiltRequest(client, CallOf(th))) @@ @]
  /\ threads' = [threads EXCEPT ![th] =
                   [pc |-> "transport", call |-> threads[th].call]]
  /\ UNCHANGED <<client, ctor, call, trace, outcome>>

(* The transport answers th's request or raises: the try block is at its   *)
(* return with the response, or control is in the except clause.           *)
Answer(th) ==
  /\ threads[th].pc = "transport"
  /\ \E n \in 1..3 :
       LET t == ConcReplies(client, CallOf(th).op)[n]
           request == frames[Frame(th)].request
           result == TransportResult(request, t)
       IN  /\ frames' = [frames EXCEPT ![Frame(th)] =
                           ("event" :> (("reply" :> t) @@ request))
                           @@ ("result" :> result) @@ @]
           /\ threads' = [threads EXCEPT ![th] =
                            [pc |-> IF result.ok THEN "return" ELSE "except",
                             call |-> threads[th].call, reply |-> n]]
  /\ UNCHANGED <<client, ctor, call, trace, outcome>>

(* th's call ends: it returns what the try block got, or its except        *)
(* clause falls back or re-raises.                                         *)
Finish(th) ==
  /\ threads[th].pc \in {"return", "except"}
  /\ LET stub == StubOf(client, CallOf(th))
         result == ExceptFallback(client, frames[Frame(th)], stub.fn, stub.value)
     IN  threads' = [threads EXCEPT ![th] =
                      [pc |-> "done", call |-> threads[th].call,
                       reply |-> threads[th].reply, result |-> result]]
  /\ UNCHANGED <<client, ctor, call, trace, outcome, frames>>

InitConc ==
  /\ client \in ConcClients
  /\ ctor = NoCtor
  /\ call = NoCall
  /\ trace = <<>>
  /\ outcome = NoOutcome
  /\ threads = [th \in Threads |-> IdleThread]
  /\ frames = [th \in Threads |-> NoFrame]

NextConc ==
  \/ \E th \in Threads : Invoke(th)
  \/ \E th \in Threads : Send(th)
  \/ \E th \in Threads : Answer(th)
  \/ \E th \in Threads : Finish(th)

SpecConc == InitConc /\ [][NextConc]_vars

----------------------------------------------------------------------------
(* Vocabulary of the properties *)

AIClientOps == {"chat_completion", "text_completion", "create_embedding"}
ExtractionOps == {"get_completion_text", "get_text_completion"}

IsTransport(e) == e.ev \in {"requests.post", "requests.get", "openai"}
IsStub(e) == e.ev = "stub"
TransportCalls == {i \in 1..Len(trace) : IsTransport(trace[i])}
StubCalls == {i \in 1..Len(trace) : IsStub(trace[i])}

(* The operation just called on an AIClient made a transport call as its   *)
(* first step. *)
CalledTransport ==
  /\ client.cls = "AIClient"
  /\ call.op \in AIClientOps
  /\ Len(trace) >= 1
  /\ IsTransport(trace[1])

(* ... and that call raised: a connection error or a non-2xx status. *)
TransportRaised == CalledTransport /\ trace[1].reply.fail \in {"connect", "status"}

(* The transport call of the event e raised. *)
CallRaised(e) ==
  ~(IF e.ev = "openai" THEN LibraryResult(e.reply) ELSE RequestsResult(e.reply)).ok

(* The error object the first transport call raised. *)
TransportError ==
  IF trace[1].ev = "openai" THEN LibraryResult(trace[1].reply).exc
                            ELSE RequestsResult(trace[1].reply).exc

(* The model name the operation just called works with. *)
CallModel == EffectiveModel(client.provider, call.op, call.args.model)

(* A vector as the stub makes it: EmbeddingDim floats in [0, 1). *)
IsStubVector(x) ==
  /\ x.t = "list"
  /\ Len(x.v) = EmbeddingDim
  /\ \A i \in 1..Len(x.v) :
       x.v[i].t = "float" /\ x.v[i].v >= 0 /\ x.v[i].v < RandomResolution

(* The stub's output for the operation just called. *)
IsStubOutput(x) ==
  CASE call.op = "chat_completion" ->
         x = AIClient_local_chat_completion(call.args.messages, CallModel,
               call.args.temperature, call.args.max_tokens, call.args.kwargs)
    [] call.op = "text_completion" ->
         x = AIClient_local_text_completion(call.args.prompt, CallModel,
               call.args.temperature, call.args.max_tokens, call.args.kwargs)
    [] OTHER -> IsStubVector(x)

(* C1: on an AIClient whose provider is not LOCAL and whose                *)
(* use_local_fallback is true, an operation whose transport call raises    *)
(* (connection error or non-2xx status) returns, and what it returns is    *)
(* the offline stub's output, whatever the arguments.                      *)
C1_FallbackReturnsStub ==
  (TransportRaised /\ client.provider # LOCAL_ /\ client.use_local_fallback)
    => (outcome.kind = "return" /\ IsStubOutput(outcome.value))

(* C1 witness, one per operation shape: a fallback client whose call with  *)
(* non-default arguments met a failing transport and got the stub's output.*)
(* C1 witness: a DEEPSEEK client with fallback met an error status in      *)
(* chat_completion and returned the stub's response.                       *)
C1_Witness ==
  /\ TransportRaised /\ client.provider = DEEPSEEK /\ client.use_local_fallback
  /\ call.op = "chat_completion"
  /\ call.args.model # None /\ call.args.max_tokens # None
  /\ DOMAIN call.args.kwargs # {}
  /\ trace[1].reply.fail = "status"
  /\ outcome.kind = "return"
  /\ KeyChatPath(outcome.value) = Ok(PyStr(LocalChatText))

(* C2: with use_local_fallback false, a raising transport call makes the   *)
(* operation raise ProviderCallFailed whose cause is the transport's       *)
(* error, and no stub result is returned.                                  *)
C2_Claimed_ProviderCallFailed ==
  (TransportRaised /\ ~client.use_local_fallback)
    => /\ outcome.kind = "raise"
       /\ outcome.exc.type = "ProviderCallFailed"
       /\ outcome.exc.cause = Some(TransportError)
       /\ StubCalls = {}

(* An operation of an AIClient let the error of its transport call         *)
(* (connection error or non-2xx status) through to its caller.             *)
PropagatedTransportFailure == TransportRaised /\ outcome.kind = "raise"

(* C3: a transport failure an AIClient operation lets through to the       *)
(* caller carries the identity of the provider that failed and, as its     *)
(* cause, the transport's error.                                           *)
C3_Claimed_ErrorCarriesProvider ==
  PropagatedTransportFailure
    => /\ "provider" \in DOMAIN outcome.exc
       /\ outcome.exc.provider = client.provider
       /\ outcome.exc.cause = Some(TransportError)

(* The constructor just called was given no credential, by argument or by  *)
(* the environment variable var.                                           *)
NoCredential(var) == ~Truthy(ctor.args.api_key) /\ ~Truthy(ctor.environ[var])

(* C4: constructing an AIClient with use_local_fallback false for OPENAI   *)
(* or DEEPSEEK without a credential (argument or environment), or an       *)
(* OpenAIClient or DeepSeekClient without one, fails in the constructor:   *)
(* no client object exists afterwards.                                     *)
C4_ConstructionFailsWithoutCredential ==
  LET missing ==
        \/ /\ ctor.cls = "AIClient"
           /\ ~ctor.args.use_local_fallback
           /\ \/ ctor.args.provider = OPENAI /\ NoCredential("OPENAI_API_KEY")
              \/ ctor.args.provider = DEEPSEEK /\ NoCredential("DEEPSEEK_API_KEY")
        \/ ctor.cls = "OpenAIClient" /\ NoCredential("OPENAI_API_KEY")
        \/ ctor.cls = "DeepSeekClient" /\ NoCredential("DEEPSEEK_API_KEY")
  IN  missing => (ctor.result = "ValueError" /\ client = NoClient)

(* C4 witness: AIClient(DEEPSEEK, use_local_fallback=False) with no key    *)
(* given and none in DEEPSEEK_API_KEY raised ValueError.                   *)
C4_Witness ==
  /\ ctor.cls = "AIClient"
  /\ ctor.args.provider = DEEPSEEK
  /\ ~ctor.args.use_local_fallback
  /\ ctor.args.api_key = None
  /\ ctor.environ.DEEPSEEK_API_KEY = None
  /\ ctor.environ.OPENAI_API_KEY # None
  /\ ctor.result = "ValueError"
  /\ client = NoClient

(* A path into a response: keys and 0-based indices. *)
Key(k) == [key |-> k]
Index(i) == [index |-> i]
ChoicesChatPath == <<Key("choices"), Index(0), Key("message"), Key("content")>>
ChoicesTextPath == <<Key("choices"), Index(0), Key("text")>>
MessagePath == <<Key("message"), Key("content")>>
ResponsePath == <<Key("response")>>

(* Following a path through containers of the given kind ("dict" for      *)
(* mappings, "object" for the library's objects) and lists: "complete"    *)
(* when every step exists, "missing" when a container lacks the key or a   *)
(* list the index, "wrong shape" when a step meets a value that is neither *)
RECURSIVE Walk(_, _, _)
Walk(x, path, kind) ==
  IF path = <<>> THEN "complete"
  ELSE IF "key" \in DOMAIN Head(path) THEN
    IF x.t # kind THEN "wrong shape"
    ELSE IF Head(path).key \notin DOMAIN x.v THEN "missing"
    ELSE Walk(x.v[Head(path).key], Tail(path), kind)
  ELSE
    IF x.t # "list" THEN "wrong shape"
    ELSE IF Head(path).index + 1 > Len(x.v) THEN "missing"
    ELSE Walk(x.v[Head(path).index + 1], Tail(path), kind)

(* The value at the end of a complete path. *)
RECURSIVE At(_, _)
At(x, path) ==
  IF path = <<>> THEN x
  ELSE IF "key" \in DOMAIN Head(path) THEN At(x.v[Head(path).key], Tail(path))
  ELSE At(x.v[Head(path).index + 1], Tail(path))

(* The path the extractor just called expects in a mapping response: an    *)
(* Ollama client reads "message"/"response" when that key is there, every  *)
(* other case reads "choices".                                             *)
ExpectedPath ==
  LET chat == call.op = "get_completion_text"
      ollamaPath == IF chat THEN MessagePath ELSE ResponsePath
      choicesPath == IF chat THEN ChoicesChatPath ELSE ChoicesTextPath
  IN  CASE client.cls = "OllamaClient" -> ollamaPath
        [] client.cls = "AIClient" /\ client.provider = OLLAMA
             /\ Head(ollamaPath).key \in DOMAIN call.response.v -> ollamaPath
        [] OTHER -> choicesPath

(* An extractor was just called on a mapping. *)
ExtractedFromMapping ==
  /\ call.op \in ExtractionOps
  /\ call.response.t = "dict"

(* C5: an extractor applied to a mapping that lacks a key (or list item)   *)
(* of the expected path returns the empty string; it does not raise.       *)
C5_MissingKeyGivesEmptyString ==
  (ExtractedFromMapping /\ Walk(call.response, ExpectedPath, "dict") = "missing")
    => outcome = Return(PyStr(""))

(* C5 witness: an OPENAI client read a mapping whose choices list is empty *)
(* and returned the empty string.                                          *)
C5_Witness ==
  /\ ExtractedFromMapping
  /\ client.cls = "AIClient" /\ client.provider = OPENAI
  /\ call.op = "get_completion_text"
  /\ call.response = PyDict([choices |-> PyList(<<>>)])
  /\ outcome = Return(PyStr(""))

(* C6 as claimed: an extractor applied to a response of the wrong shape    *)
(* (not a mapping, or a mapping whose path meets null, a string or a       *)
(* number where a mapping or list is expected) returns the empty string    *)
(* and never raises.                                                       *)
C6_Claimed_WrongShapeGivesEmptyString ==
  (/\ call.op \in ExtractionOps
   /\ client.cls \in {"AIClient", "OllamaClient", "DeepSeekClient"}
   /\ call.response.t \in {"none", "list", "int", "str", "dict"}
   /\ call.response.t = "dict" => Walk(call.response, ExpectedPath, "dict") = "wrong shape")
    => outcome = Return(PyStr(""))

(* C7 as claimed: whatever an extractor returns is a string, never null. *)
C7_Claimed_ExtractedTextIsString ==
  (call.op \in ExtractionOps /\ outcome.kind = "return")
    => outcome.value.t = "str"

(* The shapes of a chat response the client just called takes its text     *)
(* from: the kind of container and the path to the text.                   *)
ChatShapes ==
  CASE client.cls = "OpenAIClient" -> {<<"object", ChoicesChatPath>>}
    [] client.cls = "OllamaClient" -> {<<"dict", MessagePath>>}
    [] client.cls = "AIClient" /\ client.provider = OLLAMA -> {<<"dict", MessagePath>>}
    [] client.cls = "AIClient" /\ client.provider = OPENAI ->
         {<<"dict", ChoicesChatPath>>, <<"object", ChoicesChatPath>>}
    [] OTHER -> {<<"dict", ChoicesChatPath>>}

(* The response just handed to the extractor has shape s with a text in it. *)
HasText(s) ==
  /\ Walk(call.response, s[2], s[1]) = "complete"
  /\ At(call.response, s[2]).t = "str"

(* C8: get_completion_text applied to a response of the provider's         *)
(* canonical shape (choices[0].message.content for OPENAI, DEEPSEEK and    *)
(* the stub, message.content for OLLAMA), such as chat_completion returns, *)
(* gives exactly the text the response holds there.                        *)
C8_ChatTextRoundTrip ==
  (call.op = "get_completion_text")
    => \A s \in ChatShapes :
         HasText(s) => outcome = Return(At(call.response, s[2]))

(* C8 witness: an OLLAMA client's chat_completion posted its request and   *)
(* the text of the server's response came out of get_completion_text.      *)
C8_Witness ==
  /\ client.cls = "AIClient" /\ client.provider = OLLAMA
  /\ call.op = "get_completion_text"
  /\ call.of.call.op = "chat_completion"
  /\ Len(call.of.trace) = 1
  /\ call.of.trace[1].ev = "requests.post"
  /\ call.of.trace[1].json.model = PyStr("llama2")
  /\ call.response = OllamaChatResponse(PyStr("hello"))
  /\ outcome = Return(PyStr("hello"))

(* C9 as claimed: an operation of AIClient makes at most one transport     *)
(* call and at most one stub call, and a client of a provider other than   *)
(* LOCAL calls the stub only after its one transport call failed.          *)
C9_Claimed_StubOnlyAfterFailedTransport ==
  (client.cls = "AIClient" /\ call.op \in AIClientOps)
    => /\ Cardinality(TransportCalls) <= 1
       /\ Cardinality(StubCalls) <= 1
       /\ (client.provider # LOCAL_ /\ StubCalls # {})
            => /\ TransportCalls = {1}
               /\ StubCalls = {2}
               /\ CallRaised(trace[1])

(* C10: chat_completion, text_completion and create_embedding of a LOCAL   *)
(* client make no transport call and return: the fixed placeholder text    *)
(* at choices[0].message.content or choices[0].text, or a vector of        *)
(* EmbeddingDim floats.                                                    *)
C10_LocalNeverCallsTransport ==
  (client.cls = "AIClient" /\ client.provider = LOCAL_ /\ call.op \in AIClientOps)
    => /\ TransportCalls = {}
       /\ outcome.kind = "return"
       /\ CASE call.op = "chat_completion" ->
                 /\ Walk(outcome.value, ChoicesChatPath, "dict") = "complete"
                 /\ At(outcome.value, ChoicesChatPath) = PyStr(LocalChatText)
            [] call.op = "text_completion" ->
                 /\ Walk(outcome.value, ChoicesTextPath, "dict") = "complete"
                 /\ At(outcome.value, ChoicesTextPath) = PyStr(LocalTextText)
            [] OTHER -> IsStubVector(outcome.value)

(* C10 witness: a LOCAL client without fallback made a vector in           *)
(* create_embedding, calling the stub alone.                               *)
C10_Witness ==
  /\ client.cls = "AIClient" /\ client.provider = LOCAL_
  /\ ~client.use_local_fallback
  /\ call.op = "create_embedding"
  /\ call.args.model = None
  /\ trace = <<StubEvent("_local_embedding")>>
  /\ outcome.kind = "return"
  /\ Len(outcome.value.v) = 1536

----------------------------------------------------------------------------
(* The configuration of an AIClient. *)
ConfigFields == {"provider", "api_key", "base_url", "use_local_fallback", "headers"}

(* C11: once an AIClient is constructed, no step (chat_completion,         *)
(* text_completion, create_embedding, get_completion_text,                 *)
(* get_text_completion, list_ollama_models; returning, falling back or     *)
(* raising) changes its provider, api_key, base_url, use_local_fallback or *)
(* headers.                                                                *)
C11_ConfigNeverChanges ==
  [][client.cls = "AIClient"
       => /\ client'.cls = "AIClient"
          /\ \A f \in ConfigFields : client'[f] = client[f]]_vars

(* C11 witness: a DEEPSEEK client that holds a key has just fallen back to *)
(* the stub in chat_completion, and its configuration is as constructed.   *)
C11_Witness ==
  /\ client.cls = "AIClient" /\ client.provider = DEEPSEEK
  /\ client.use_local_fallback
  /\ client.api_key = Some("sk-arg")
  /\ client.base_url = Some("http://proxy:8080/v1")
  /\ client.headers["Authorization"] = "Bearer sk-arg"
  /\ call.op = "chat_completion"
  /\ StubCalls = {2}

----------------------------------------------------------------------------
(* The HTTP requests the operation just called issued itself. *)
HttpRequests == {i \in 1..Len(trace) : trace[i].ev \in {"requests.post", "requests.get"}}

(* C13 as claimed: every HTTP request of an AIClient, OllamaClient or      *)
(* DeepSeekClient, the model-listing GET included, carries the header      *)
(* "Authorization: Bearer <credential>" when the client holds a credential *)
(* and no Authorization header when it holds none.                         *)
C13_Claimed_EveryRequestCarriesCredential ==
  (client.cls \in {"AIClient", "OllamaClient", "DeepSeekClient"})
    => \A i \in HttpRequests :
         IF Truthy(client.api_key)
           THEN /\ "Authorization" \in DOMAIN trace[i].headers
                /\ trace[i].headers["Authorization"] = "Bearer " \o client.api_key[1]
           ELSE "Authorization" \notin DOMAIN trace[i].headers

(* The base URL the client was configured with. *)
ConfiguredBaseUrl ==
  IF client.cls = "AIClient" THEN client.base_url[1] ELSE client.base_url

(* The path of an operation at the servers of the client's provider. *)
OperationPath ==
  IF client.cls = "OllamaClient" \/ (client.cls = "AIClient" /\ client.provider = OLLAMA)
    THEN CASE call.op = "chat_completion" -> "/api/chat"
           [] call.op = "text_completion" -> "/api/generate"
           [] OTHER -> "/api/embeddings"
    ELSE CASE call.op = "chat_completion" -> "/chat/completions"
           [] call.op = "text_completion" -> "/completions"
           [] OTHER -> "/embeddings"

(* C14 as claimed: every chat, text and embedding request goes to the      *)
(* client's configured base URL joined with the provider's path for the    *)
(* operation, also for an OPENAI client with a credential and a            *)
(* caller-supplied base_url.                                               *)
C14_Claimed_RequestGoesToConfiguredBaseUrl ==
  (client.cls \in {"AIClient", "OllamaClient", "DeepSeekClient"}
     /\ call.op \in AIClientOps)
    => \A i \in TransportCalls :
         EventUrl(trace[i]) = ConfiguredBaseUrl \o OperationPath

----------------------------------------------------------------------------
(* The default model names as the documentation of the clients lists them. *)
DocumentedDefault ==
  [openai |-> [chat_completion |-> "gpt-3.5-turbo",
               text_completion |-> "gpt-3.5-turbo-instruct",
               create_embedding |-> "text-embedding-ada-002"],
   deepseek |-> [chat_completion |-> "deepseek-chat",
                 text_completion |-> "deepseek-coder",
                 create_embedding |-> "deepseek-embedding"],
   ollama |-> [chat_completion |-> "llama2", text_completion |-> "llama2",
               create_embedding |-> "llama2"],
   local |-> [chat_completion |-> "local-model", text_completion |-> "local-model",
              create_embedding |-> "local-embedding"]]

(* The model name the operation just called should work with. *)
ExpectedModel ==
  IF call.args.model # None THEN call.args.model[1]
  ELSE DocumentedDefault[client.provider][call.op]

(* What a transport event sends: the JSON body or the library's arguments. *)
Payload(e) == IF e.ev = "openai" THEN e.args ELSE e.json

(* C15: in chat_completion, text_completion and create_embedding of        *)
(* AIClient the model sent with the request, and the model the stub's      *)
(* chat or text response names, is the caller's model when one is given    *)
(* and else the default of the provider for the operation.                 *)
C15_EffectiveModel ==
  (client.cls = "AIClient" /\ call.op \in AIClientOps)
    => /\ \A i \in TransportCalls : Payload(trace[i]).model = PyStr(ExpectedModel)
       /\ (StubCalls # {} /\ call.op # "create_embedding")
            => outcome.value.v.model = PyStr(ExpectedModel)

(* C15 witness: a DEEPSEEK client called text_completion without a model,  *)
(* sent "deepseek-coder", fell back, and the stub's response names it.     *)
C15_Witness ==
  /\ client.cls = "AIClient" /\ client.provider = DEEPSEEK
  /\ call.op = "text_completion"
  /\ call.args.model = None
  /\ TransportCalls = {1} /\ StubCalls = {2}
  /\ trace[1].json.model = PyStr("deepseek-coder")
  /\ outcome.value.v.model = PyStr("deepseek-coder")

(* A chat or text request was just posted to an Ollama server. *)
PostedToOllama ==
  /\ \/ client.cls = "OllamaClient"
     \/ client.cls = "AIClient" /\ client.provider = OLLAMA
  /\ call.op \in {"chat_completion", "text_completion"}
  /\ Len(trace) >= 1

(* The options of the request, empty when the payload has none. *)
OptionsOf(payload) ==
  IF "options" \in DOMAIN payload THEN payload.options.v ELSE <<>>

(* C16: every chat and text payload for an Ollama server has "stream"      *)
(* false at its top level whatever extra arguments the caller passes, has  *)
(* no top-level "temperature" or "max_tokens", and carries the caller's    *)
(* temperature and max_tokens as options.temperature and                   *)
(* options.num_predict, and only when the caller gave them.                *)
C16_OllamaPayloadShape ==
  PostedToOllama
    => LET payload == trace[1].json
           options == OptionsOf(payload)
       IN  /\ payload.stream = PyBool(FALSE)
           /\ "temperature" \notin DOMAIN payload
           /\ "max_tokens" \notin DOMAIN payload
           /\ IF call.args.temperature # PyNone
                THEN /\ "temperature" \in DOMAIN options
                     /\ options.temperature = call.args.temperature
                ELSE "temperature" \notin DOMAIN options
           /\ IF call.args.max_tokens # None
                THEN /\ "num_predict" \in DOMAIN options
                     /\ options.num_predict = PyInt(call.args.max_tokens[1])
                ELSE "num_predict" \notin DOMAIN options

(* C16 witness: OllamaClient.chat_completion was called with stream=True   *)
(* and top_p among the extras, a temperature and max_tokens; the payload   *)
(* has stream false and the three controls in its options.                 *)
C16_Witness ==
  /\ PostedToOllama
  /\ client.cls = "OllamaClient"
  /\ call.op = "chat_completion"
  /\ "stream" \in DOMAIN call.args.kwargs
  /\ call.args.kwargs["stream"] = PyBool(TRUE)
  /\ call.args.max_tokens = Some(16)
  /\ trace[1].json.stream = PyBool(FALSE)
  /\ DOMAIN OptionsOf(trace[1].json) = {"temperature", "num_predict", "top_p"}

(* A chat or text request was just sent for OPENAI or DEEPSEEK. *)
SentToHosted ==
  /\ \/ client.cls \in {"DeepSeekClient", "OpenAIClient"}
     \/ client.cls = "AIClient" /\ client.provider \in {OPENAI, DEEPSEEK}
  /\ call.op \in {"chat_completion", "text_completion"}
  /\ Len(trace) >= 1

(* C17: every chat and text payload for OPENAI and DEEPSEEK has the        *)
(* caller's temperature as its top-level "temperature", always, and the    *)
(* caller's max_tokens as its top-level "max_tokens" whenever the caller   *)
(* gave one.                                                               *)
C17_HostedPayloadShape ==
  SentToHosted
    => LET payload == Payload(trace[1])
       IN  /\ "temperature" \in DOMAIN payload
           /\ payload.temperature = call.args.temperature
           /\ call.args.max_tokens # None
                => /\ "max_tokens" \in DOMAIN payload
                   /\ payload.max_tokens = PyInt(call.args.max_tokens[1])

(* C17 witness: DeepSeekClient.text_completion posted a payload with the   *)
(* temperature 0.7, max_tokens 16 and the caller's extras at top level.    *)
C17_Witness ==
  /\ SentToHosted
  /\ client.cls = "DeepSeekClient"
  /\ call.op = "text_completion"
  /\ trace[1].json.temperature = PyFloat(700)
  /\ "max_tokens" \in DOMAIN trace[1].json
  /\ trace[1].json.max_tokens = PyInt(16)
  /\ "top_p" \in DOMAIN trace[1].json

(* The model listing was just called and sent its GET. *)
ListedModels ==
  /\ \/ client.cls = "AIClient" /\ call.op = "list_ollama_models"
     \/ client.cls = "OllamaClient" /\ call.op = "list_models"
  /\ Len(trace) = 1

(* The entries of "models" in the server's answer, when the answer came,   *)
(* is a mapping and its "models" a list of mappings that all have a name.  *)
WellFormedModels ==
  LET t == trace[1].reply
  IN  /\ t.fail = "none"
      /\ t.body.t = "dict"
      /\ "models" \in DOMAIN t.body.v
      /\ t.body.v.models.t = "list"
      /\ \A i \in 1..Len(t.body.v.models.v) :
            /\ t.body.v.models.v[i].t = "dict"
            /\ "name" \in DOMAIN t.body.v.models.v[i].v

(* C18: the model listing never raises: it returns the names of the models *)
(* in the server's answer, in order, and the empty list on any failure     *)
(* (connection error, error status, undecodable body, an answer of another *)
(* shape, an entry without a name).                                        *)
C18_ListingNeverRaises ==
  ListedModels
    => /\ outcome.kind = "return"
       /\ outcome.value.t = "list"
       /\ IF WellFormedModels
            THEN LET models == trace[1].reply.body.v.models.v
                 IN  /\ Len(outcome.value.v) = Len(models)
                     /\ \A i \in 1..Len(models) : outcome.value.v[i] = models[i].v.name
            ELSE outcome.value.v = <<>>

(* C18 witness: OllamaClient.list_models met an answer whose second entry  *)
(* has no name and returned the empty list.                                *)
C18_Witness ==
  /\ ListedModels
  /\ client.cls = "OllamaClient"
  /\ trace[1].reply.fail = "none"
  /\ trace[1].reply.body.t = "dict"
  /\ "models" \in DOMAIN trace[1].reply.body.v
  /\ trace[1].reply.body.v.models.t = "list"
  /\ Len(trace[1].reply.body.v.models.v) = 2
  /\ ~WellFormedModels
  /\ outcome = Return(PyList(<<>>))

(* C19: OllamaClient.pull_model posts once to /api/pull; it returns the    *)
(* decoded answer of the server when the call succeeds, and raises the     *)
(* call's error when it fails: no stub is called and no value returned.    *)
C19_PullReturnsOrRaises ==
  (client.cls = "OllamaClient" /\ call.op = "pull_model")
    => /\ Len(trace) = 1
       /\ trace[1].ev = "requests.post"
       /\ trace[1].url = client.base_url \o "/api/pull"
       /\ IF trace[1].reply.fail = "none"
            THEN outcome = Return(trace[1].reply.body)
            ELSE outcome.kind = "raise"

(* C19 witness: a pull met an error status and raised HTTPError. *)
C19_Witness ==
  /\ client.cls = "OllamaClient" /\ call.op = "pull_model"
  /\ trace[1].reply.fail = "status"
  /\ outcome = Raise(PyExc("HTTPError"))

----------------------------------------------------------------------------
(* The shape of what the client's provider returns for the operation just  *)
(* called when the call succeeds: the kind of container and the path to    *)
(* the text.                                                               *)
SuccessShape ==
  LET chat == call.op = "chat_completion"
  IN  CASE UsesLibrary(client) ->
             <<"object", IF chat THEN ChoicesChatPath ELSE ChoicesTextPath>>
        [] client.provider = OLLAMA ->
             <<"dict", IF chat THEN MessagePath ELSE ResponsePath>>
        [] OTHER ->
             <<"dict", IF chat THEN ChoicesChatPath ELSE ChoicesTextPath>>

(* C20 as claimed: what chat_completion and text_completion return on the  *)
(* fallback path has the representation and the shape of what the          *)
(* client's provider returns on its own success path.                      *)
C20_Claimed_FallbackHasProviderShape ==
  (/\ client.cls = "AIClient" /\ client.provider # LOCAL_
   /\ call.op \in {"chat_completion", "text_completion"}
   /\ StubCalls # {})
    => /\ outcome.kind = "return"
       /\ Walk(outcome.value, SuccessShape[2], SuccessShape[1]) = "complete"

----------------------------------------------------------------------------
(* What the call c does when it runs alone and the transport does t. *)
Alone(self, c, t) ==
  IF c.op = "chat_completion"
  THEN AIClient_chat_completion(self, c.args.messages, c.args.model,
         c.args.temperature, c.args.max_tokens, c.args.kwargs, t)
  ELSE AIClient_text_completion(self, c.args.prompt, c.args.model,
         c.args.temperature, c.args.max_tokens, c.args.kwargs, t)

(* The request the call c sends when it runs alone. *)
RequestAlone(self, c) ==
  LET e == Alone(self, c, Failures[1]).trace[1]
  IN  [f \in DOMAIN e \ {"reply"} |-> e[f]]

(* C12: calls that run concurrently on one AIClient are independent: under *)
(* every interleaving of their steps, the request of a call that waits in  *)
(* the transport (URL, headers, payload) and how a finished call ended     *)
(* (the provider's result, the stub's result or the raised error) are what *)
(* the call does when it runs alone and meets the same reply; the failure  *)
(* of another call's transport has no part in it.                          *)
C12_ConcurrentCallsIndependent ==
  \A th \in Threads :
    /\ threads[th].pc = "transport"
         => frames[Frame(th)].request = RequestAlone(client, CallOf(th))
    /\ threads[th].pc = "done"
         => threads[th].result = Alone(client, CallOf(th), ReplyOf(th))

(* C12 witness: on a client with fallback, thread 1 has sent its request   *)
(* and waits for the answer; meanwhile thread 2 made another call from     *)
(* beginning to end, met a connection failure and returned the stub's      *)
(* result.                                                                 *)
C12_Witness ==
  /\ client.use_local_fallback
  /\ threads[1].pc = "transport"
  /\ frames[Frame(1)].request = RequestAlone(client, ConcCalls[1])
  /\ threads[2].pc = "done"
  /\ threads[2].call = 3
  /\ ReplyOf(2).fail = "connect"
  /\ Len(threads[2].result.trace) = 2
  /\ threads[2].result.outcome.kind = "return"

----------------------------------------------------------------------------
(* Where an embedding response holds its vector: data[0].embedding for the *)
(* hosted providers, embedding for an Ollama server.                       *)
EmbeddingPath ==
  IF client.cls = "OllamaClient" \/ (client.cls = "AIClient" /\ client.provider = OLLAMA)
    THEN <<Key("embedding")>>
    ELSE <<Key("data"), Index(0), Key("embedding")>>

(* create_embedding was just called, its request got a 2xx response, and   *)
(* the decoded body does not hold a vector where the provider puts it.     *)
MalformedEmbeddingResponse ==
  /\ call.op = "create_embedding"
  /\ Len(trace) >= 1
  /\ IsTransport(trace[1])
  /\ trace[1].reply.fail = "none"
  /\ Walk(trace[1].reply.body, EmbeddingPath,
          IF trace[1].ev = "openai" THEN "object" ELSE "dict") # "complete"

(* C21 as claimed: when the embedding response arrives with a 2xx status   *)
(* but lacks the expected structure, create_embedding returns an empty     *)
(* list and raises nothing, with fallback enabled or not.                  *)
C21_Claimed_MalformedEmbeddingGivesEmptyList ==
  MalformedEmbeddingResponse => outcome = Return(PyList(<<>>))

----------------------------------------------------------------------------
(* C22: create_embedding of an AIClient served by the offline stub (the    *)
(* provider is LOCAL, or the call fell back) returns a sequence of exactly *)
(* 1536 floats, each in [0, 1), whatever the text and the model.           *)
C22_StubEmbeddingIs1536UnitFloats ==
  (client.cls = "AIClient" /\ call.op = "create_embedding" /\ StubCalls # {})
    => /\ outcome.kind = "return"
       /\ outcome.value.t = "list"
       /\ Len(outcome.value.v) = 1536
       /\ \A i \in 1..Len(outcome.value.v) :
            /\ outcome.value.v[i].t = "float"
            /\ 0 <= outcome.value.v[i].v
            /\ outcome.value.v[i].v < RandomResolution

(* C22 witness: an OLLAMA client with fallback, asked for the embedding of *)
(* the empty text with a model of the caller's, met an error status and    *)
(* returned 1536 values from the stub.                                     *)
C22_Witness ==
  /\ client.cls = "AIClient" /\ client.provider = OLLAMA
  /\ client.use_local_fallback
  /\ call.op = "create_embedding"
  /\ call.args.text = PyStr("") /\ call.args.model = Some("custom-model")
  /\ Len(trace) = 2 /\ trace[1].reply.fail = "status"
  /\ trace[2] = StubEvent("_local_embedding")
  /\ outcome.kind = "return"
  /\ Len(outcome.value.v) = 1536
  /\ outcome.value.v[1] # outcome.value.v[2]

----------------------------------------------------------------------------
(* The two representations of a raw response: a plain mapping, and an      *)
(* object exposing the same fields as attributes.                          *)
Representations == {"dict", "object"}

(* Where the responses of the AIClient's provider hold the text the        *)
(* extractor just called is after.                                         *)
ProviderTextPath ==
  IF call.op = "get_completion_text"
    THEN (IF client.provider = OLLAMA THEN MessagePath ELSE ChoicesChatPath)
    ELSE (IF client.provider = OLLAMA THEN ResponsePath ELSE ChoicesTextPath)

(* C23 as claimed: for every provider of an AIClient, get_completion_text  *)
(* and get_text_completion applied to a response that holds a text at the  *)
(* provider's path, as a mapping or as an object with the same fields as   *)
(* attributes, return that text and do not raise.                          *)
C23_Claimed_BothRepresentationsAccepted ==
  (client.cls = "AIClient" /\ call.op \in ExtractionOps)
    => \A kind \in Representations :
         (/\ Walk(call.response, ProviderTextPath, kind) = "complete"
          /\ At(call.response, ProviderTextPath).t = "str")
           => outcome = Return(At(call.response, ProviderTextPath))

----------------------------------------------------------------------------
(* The extractor was just applied to what a completion of the same         *)
(* AIClient returned after its transport call raised.                      *)
ExtractedFromFallback ==
  /\ client.cls = "AIClient"
  /\ call.op \in ExtractionOps
  /\ call.of.call.op = (IF call.op = "get_completion_text"
                          THEN "chat_completion" ELSE "text_completion")
  /\ Len(call.of.trace) >= 1
  /\ IsTransport(call.of.trace[1])
  /\ CallRaised(call.of.trace[1])

(* C24: for OPENAI, DEEPSEEK and OLLAMA with fallback enabled, when the    *)
(* transport raises, the client's extractor applied to the value the       *)
(* completion returned (get_completion_text after chat_completion,         *)
(* get_text_completion after text_completion) gives the stub's fixed       *)
(* placeholder text, never the empty string.                               *)
C24_ExtractorReadsFallbackText ==
  (ExtractedFromFallback /\ client.provider # LOCAL_ /\ client.use_local_fallback)
    => /\ outcome = Return(PyStr(IF call.op = "get_completion_text"
                                   THEN LocalChatText ELSE LocalTextText))
       /\ outcome # Return(PyStr(""))

(* C24 witness: an OPENAI client without a credential, fallback enabled,   *)
(* asked for the completion of "poem", met a connection error, and         *)
(* get_text_completion read the placeholder text out of what it returned.  *)
C24_Witness ==
  /\ ExtractedFromFallback
  /\ client.provider = OPENAI /\ client.api_key = None
  /\ client.use_local_fallback
  /\ call.op = "get_text_completion"
  /\ call.of.call.args.prompt = PyStr("poem")
  /\ call.of.trace[1].reply.fail = "connect"
  /\ call.of.trace[2] = StubEvent("_local_text_completion")
  /\ outcome = Return(PyStr(LocalTextText))

----------------------------------------------------------------------------
(* The inputs of the completion just called: conversations or prompts. *)
StubInputs == IF call.op = "chat_completion" THEN Conversations ELSE Prompts

(* The stub of the completion just called, on arguments of the caller's    *)
(* choice.                                                                 *)
StubResult(n, model, temperature, max_tokens, kwargs) ==
  IF call.op = "chat_completion"
    THEN AIClient_local_chat_completion(StubInputs[n], model, temperature,
                                        max_tokens, kwargs)
    ELSE AIClient_local_text_completion(StubInputs[n], model, temperature,
                                        max_tokens, kwargs)

(* The model names a stub may be called with: a caller's, or a default. *)
StubModels ==
  {EffectiveModel(provider, call.op, model) : provider \in AIProvider, model \in Models}

(* A completion of an AIClient was just served by the stub. *)
StubServedCompletion ==
  /\ client.cls = "AIClient"
  /\ call.op \in {"chat_completion", "text_completion"}
  /\ StubCalls # {}
  /\ outcome.kind = "return"

(* C25: the stub's chat and text results depend on nothing but the model   *)
(* name: a second call of the stub with the same model returns a value     *)
(* equal to the one just returned, whatever its messages or prompt,        *)
(* temperature, max_tokens and extras; with another model the value        *)
(* differs from it in the "model" field and nowhere else.                  *)
C25_StubDependsOnModelOnly ==
  StubServedCompletion
    => \A n \in 1..Len(StubInputs), model \in StubModels, j \in 1..Len(Temperatures),
          max_tokens \in MaxTokensArgs, k \in 1..Len(KwargsArgs) :
         LET again == StubResult(n, model, Temperatures[j], max_tokens, KwargsArgs[k])
         IN  IF model = CallModel
               THEN again = outcome.value
               ELSE /\ again # outcome.value
                    /\ again.v.model = PyStr(model)
                    /\ again = PyDict([outcome.value.v EXCEPT !.model = PyStr(model)])

(* C25 witness: a LOCAL client's chat_completion, called with two          *)
(* messages, no temperature, a max_tokens and extras, returned what the    *)
(* stub returns for one message, a temperature, no max_tokens, no extras.  *)
C25_Witness ==
  /\ StubServedCompletion
  /\ client.provider = LOCAL_
  /\ call.op = "chat_completion"
  /\ call.args.messages = Conversations[2]
  /\ call.args.temperature = PyNone
  /\ call.args.max_tokens = Some(16)
  /\ DOMAIN call.args.kwargs # {}
  /\ call.args.model = None
  /\ outcome.value = AIClient_local_chat_completion(Conversations[1], "local-model",
                        Temperatures[1], None, <<>>)

----------------------------------------------------------------------------
(* A completion of an AIClient for OLLAMA just posted its request. *)
OllamaAdapterPosted ==
  /\ client.cls = "AIClient" /\ client.provider = OLLAMA
  /\ call.op \in {"chat_completion", "text_completion"}
  /\ Len(trace) >= 1
  /\ trace[1].ev = "requests.post"

(* The request OllamaClient posts for the same base URL, credential and    *)
(* arguments as the call just made.                                        *)
OllamaClientRequest ==
  LET other == OllamaClient_init(client.base_url[1], client.api_key).value
      r == IF call.op = "chat_completion"
             THEN OllamaClient_chat_completion(other, call.args.messages,
                    call.args.model, call.args.temperature, call.args.max_tokens,
                    call.args.kwargs, trace[1].reply)
             ELSE OllamaClient_text_completion(other, call.args.prompt,
                    call.args.model, call.args.temperature, call.args.max_tokens,
                    call.args.kwargs, trace[1].reply)
  IN  r.trace[1]

(* C26 as claimed: for the same base URL, credential and arguments, an     *)
(* AIClient for OLLAMA and an OllamaClient post to the same URL with the   *)
(* same payload, in chat_completion and in text_completion, extras         *)
(* included.                                                               *)
C26_Claimed_OllamaAdaptersSendSameRequest ==
  OllamaAdapterPosted
    => /\ trace[1].url = OllamaClientRequest.url
       /\ trace[1].json = OllamaClientRequest.json

----------------------------------------------------------------------------
(* A completion of an AIClient got a 2xx response whose body could not be  *)
(* decoded as JSON.                                                        *)
UndecodableBody ==
  /\ client.cls = "AIClient"
  /\ call.op \in {"chat_completion", "text_completion"}
  /\ Len(trace) >= 1
  /\ IsTransport(trace[1])
  /\ trace[1].reply.fail \in {"decode", "nonjson"}

(* The error of decoding a body that is not JSON. *)
DecodingError == PyExc("JSONDecodeError")

(* C27: in chat_completion and text_completion of an AIClient a 2xx        *)
(* response whose body cannot be decoded is handled as a transport failure *)
(* is: with fallback enabled the call returns what it returns when the     *)
(* connection fails, the stub's result; otherwise it raises the decoding   *)
(* error and the stub is not called.  Nothing else is ever returned.       *)
C27_Claimed_UndecodableBodyIsTransportFailure ==
  UndecodableBody
    => /\ IF client.use_local_fallback /\ client.provider # LOCAL_
            THEN /\ outcome = Alone(client, call, Failures[1]).outcome
                 /\ outcome.kind = "return"
                 /\ IsStubOutput(outcome.value)
                 /\ StubCalls = {2}
            ELSE /\ outcome = Raise(DecodingError)
                 /\ StubCalls = {}
       /\ outcome.kind = "return" => IsStubOutput(outcome.value)

----------------------------------------------------------------------------
(* The environment variable AIClient reads the provider's credential from. *)
CredentialVariable(provider) ==
  IF provider = OPENAI THEN "OPENAI_API_KEY" ELSE "DEEPSEEK_API_KEY"

(* AIClient was just constructed for OPENAI or DEEPSEEK with api_key="". *)
ConstructedWithEmptyKey ==
  /\ ctor.cls = "AIClient"
  /\ ctor.args.provider \in {OPENAI, DEEPSEEK}
  /\ ctor.args.api_key = Some("")

(* C28: an empty-string credential given to AIClient for OPENAI or         *)
(* DEEPSEEK counts as none.  The value of the environment variable is used *)
(* when it is set; when it is not, construction fails with                 *)
(* use_local_fallback false, and with use_local_fallback true the client   *)
(* is built without a key, and no request of a keyless client carries an   *)
(* Authorization header.                                                   *)
C28_EmptyCredentialIsNoCredential ==
  /\ ConstructedWithEmptyKey
       => LET env == ctor.environ[CredentialVariable(ctor.args.provider)]
          IN  IF env # None /\ env[1] # ""
                THEN /\ ctor.result = "ok"
                     /\ client.api_key = env
                     /\ "Authorization" \in DOMAIN client.headers
                     /\ client.headers.Authorization = "Bearer " \o env[1]
              ELSE IF ~ctor.args.use_local_fallback
                THEN ctor.result = "ValueError" /\ client = NoClient
              ELSE /\ ctor.result = "ok"
                   /\ client.cls = "AIClient"
                   /\ client.api_key = None
                   /\ "Authorization" \notin DOMAIN client.headers
  /\ (/\ client.cls = "AIClient"
      /\ client.provider \in {OPENAI, DEEPSEEK}
      /\ client.api_key = None)
       => \A i \in HttpRequests : "Authorization" \notin DOMAIN trace[i].headers

(* C28 witness: AIClient(OPENAI, api_key="") with OPENAI_API_KEY set was   *)
(* built with the key of the environment.                                  *)
C28_Witness ==
  /\ ConstructedWithEmptyKey
  /\ ctor.args.provider = OPENAI
  /\ ~ctor.args.use_local_fallback
  /\ ctor.environ.OPENAI_API_KEY = Some("sk-env")
  /\ ctor.result = "ok"
  /\ client.api_key = Some("sk-env")
  /\ client.headers.Authorization = "Bearer sk-env"

====
